---- MODULE Spec2Model ----
(***************************************************************************)
(* Knowledge-map viewer: the tree layout, the fit-to-canvas geometry, the  *)
(* d3 zoom viewport with its keyboard navigation, and the host App that    *)
(* fetches a tree and hands it to the visualisation hook.                  *)
(*                                                                         *)
(* Numbers.  The JavaScript code computes in IEEE doubles; the model       *)
(* computes the same expressions over exact rationals <<n, d>> (d > 0,     *)
(* lowest terms), so statements about equality are statements about the    *)
(* real-number value of the code's expressions.                            *)
(***************************************************************************)
EXTENDS Integers, Sequences, FiniteSets, TLC

(***************************************************************************)
(* Exact rational arithmetic                                               *)
(***************************************************************************)
Abs(i) == IF i < 0 THEN -i ELSE i

RECURSIVE Gcd(_, _)
Gcd(a, b) == IF b = 0 THEN a ELSE Gcd(b, a % b)

RNorm(n, d) ==
    LET g == Gcd(Abs(n), Abs(d))
        s == IF d < 0 THEN -1 ELSE 1
    IN  <<(s * n) \div g, (s * d) \div g>>

R(i) == <<i, 1>>

RAdd(a, b) ==
    LET g == Gcd(a[2], b[2])
    IN  RNorm(a[1] * (b[2] \div g) + b[1] * (a[2] \div g), (a[2] \div g) * b[2])

RNeg(a) == <<-a[1], a[2]>>

RSub(a, b) == RAdd(a, RNeg(b))

RMul(a, b) ==
    LET g1 == Gcd(Abs(a[1]), b[2])
        g2 == Gcd(Abs(b[1]), a[2])
    IN  RNorm((a[1] \div g1) * (b[1] \div g2), (a[2] \div g2) * (b[2] \div g1))

RInv(a) == RNorm(a[2], a[1])

RDiv(a, b) == RMul(a, RInv(b))

RLt(a, b) == a[1] * b[2] < b[1] * a[2]

RLe(a, b) == a[1] * b[2] <= b[1] * a[2]

RMin(a, b) == IF RLt(b, a) THEN b ELSE a

RMax(a, b) == IF RLt(a, b) THEN b ELSE a

RHalf(a) == RDiv(a, R(2))

(***************************************************************************)
(* ConceptNode data as it arrives from the backend.  A datum is a flat     *)
(* table of JSON values: node 1 is the root, children are index lists.     *)
(* kind "object" is a JSON object, "string" a JSON string standing where   *)
(* a node should be, "null" a JSON null.                                   *)
(***************************************************************************)
Null == -1

MaxNodes == 4

RECURSIVE SeqOfSet(_)
SeqOfSet(S) ==
    IF S = {} THEN <<>>
    ELSE LET m == CHOOSE x \in S : \A y \in S : x <= y
         IN  <<m>> \o SeqOfSet(S \ {m})

ParentVecs(n) == {p \in [2..n -> 1..n] : \A i \in 2..n : p[i] < i}

NodeNames == <<"A", "B", "C", "D", "E", "F">>

\* The well-formed tree with n nodes whose node i (i > 1) has parent p[i].
MkTree(n, p) ==
    [n |-> n,
     node |-> [i \in 1..n |->
        [kind |-> "object", hasName |-> TRUE, name |-> NodeNames[i],
         children |-> SeqOfSet({j \in 2..n : p[j] = i})]]]

ValidTrees == UNION {{MkTree(n, p) : p \in ParentVecs(n)} : n \in 1..MaxNodes}

IsLeaf(data, i) == data.node[i].children = <<>>

\* One node of a well-formed tree damaged: its name removed, or (a leaf)
\* replaced by a string or by null.
Damage(data, i, how) ==
    [data EXCEPT !.node[i] =
        IF how = "noname" THEN [@ EXCEPT !.hasName = FALSE]
        ELSE [kind |-> how, hasName |-> FALSE, name |-> "", children |-> <<>>]]

MaxBadNodes == 3

DamageSites(data, how) ==
    {i \in 1..data.n : how = "noname" \/ IsLeaf(data, i)}

MalformedTrees ==
    UNION {{Damage(d, i, how) : i \in DamageSites(d, how)} :
              d \in {t \in ValidTrees : t.n <= MaxBadNodes},
              how \in {"noname", "string", "null"}}

(***************************************************************************)
(* d3.hierarchy(data): one Node per datum reached from the root through    *)
(* `children`, created when its parent is popped from the work stack.      *)
(* Reading `.children` of null throws; a string has no `.children`.        *)
(***************************************************************************)
ChildrenOf(data, i) ==
    IF data.node[i].kind = "object" THEN data.node[i].children ELSE <<>>

Reverse(s) == [k \in 1..Len(s) |-> s[Len(s) + 1 - k]]

\* A faulty d3.hierarchy loop: a child is given its parent's depth.
RECURSIVE HierLoopSameDepth(_, _, _, _)
HierLoopSameDepth(data, stack, created, kids) ==
    IF stack = <<>> THEN [threw |-> FALSE, created |-> created, kids |-> kids]
    ELSE LET node == stack[Len(stack)]
             rest == SubSeq(stack, 1, Len(stack) - 1)
             childs == ChildrenOf(data, node.id)
             made == [k \in 1..Len(childs) |->
                        [id |-> childs[k], depth |-> node.depth, parent |-> node.id]]
         IN  IF data.node[node.id].kind = "null"
             THEN [threw |-> TRUE, created |-> created, kids |-> kids]
             ELSE IF childs = <<>>
             THEN HierLoopSameDepth(data, rest, created, kids)
             ELSE HierLoopSameDepth(data, rest \o Reverse(made),
                                    created \o Reverse(made),
                                    (node.id :> childs) @@ kids)

\* stack: Nodes still to expand; created: every Node made so far, each a
\* record [id, depth, parent]; kids: node.children of the Nodes that got one.
RECURSIVE HierLoop(_, _, _, _)
HierLoop(data, stack, created, kids) ==
    IF stack = <<>> THEN [threw |-> FALSE, created |-> created, kids |-> kids]
    ELSE LET node == stack[Len(stack)]
             rest == SubSeq(stack, 1, Len(stack) - 1)
         IN  IF data.node[node.id].kind = "null"
             THEN [threw |-> TRUE, created |-> created, kids |-> kids]
             ELSE LET childs == ChildrenOf(data, node.id)
                      made == [k \in 1..Len(childs) |->
                                 [id |-> childs[k], depth |-> node.depth + 1,
                                  parent |-> node.id]]
                  IN  IF childs = <<>>
                      THEN HierLoop(data, rest, created, kids)
                      ELSE HierLoop(data, rest \o Reverse(made),
                                    created \o Reverse(made),
                                    (node.id :> childs) @@ kids)

hierarchy(data) ==
    LET root == [id |-> 1, depth |-> 0, parent |-> 0]
    IN  HierLoop(data, <<root>>, <<root>>, <<>>)

\* Accessors on a hierarchy that did not throw.  Node 0 stands for the
\* TreeNode d3.tree puts above the root.
HIds(h) == {h.created[k].id : k \in 1..Len(h.created)}
HNode(h, i) == h.created[CHOOSE k \in 1..Len(h.created) : h.created[k].id = i]
HDepth(h, i) == HNode(h, i).depth
HParent(h, i) == HNode(h, i).parent
HChildren(h, i) ==
    IF i = 0 THEN <<1>>
    ELSE IF i \in DOMAIN h.kids THEN h.kids[i] ELSE <<>>
HasChildren(h, i) == i \in DOMAIN h.kids

RECURSIVE PreOrder(_, _)
RECURSIVE PreOrderAll(_, _)
PreOrder(h, i) == <<i>> \o PreOrderAll(h, HChildren(h, i))
PreOrderAll(h, cs) ==
    IF cs = <<>> THEN <<>> ELSE PreOrder(h, cs[1]) \o PreOrderAll(h, Tail(cs))

RECURSIVE PostOrder(_, _)
RECURSIVE PostOrderAll(_, _)
PostOrder(h, i) == PostOrderAll(h, HChildren(h, i)) \o <<i>>
PostOrderAll(h, cs) ==
    IF cs = <<>> THEN <<>> ELSE PostOrder(h, cs[1]) \o PostOrderAll(h, Tail(cs))

(***************************************************************************)
(* The tree layout: d3.tree() (Buchheim et al.) with the separation and    *)
(* size that useD3Tree configures.                                         *)
(***************************************************************************)
\* separation(a, b) of useD3Tree: 5.5 between siblings, 6.5 between cousins,
\* plus 0.5 for each of the two that has children.
separation(h, a, b) ==
    LET baseSeparation == IF HParent(h, a) = HParent(h, b) THEN <<11, 2>> ELSE <<13, 2>>
        childrenFactor == RAdd(IF HasChildren(h, a) THEN <<1, 2>> ELSE R(0),
                               IF HasChildren(h, b) THEN <<1, 2>> ELSE R(0))
    IN  RAdd(baseSeparation, childrenFactor)

SibIndex(h, v) ==
    IF v = 0 THEN 0
    ELSE LET sibs == HChildren(h, HParent(h, v))
         IN  (CHOOSE k \in 1..Len(sibs) : sibs[k] = v) - 1

\* new TreeNode(node, i) for every node, and the one above the root.
treeRoot(h) ==
    [v \in HIds(h) \cup {0} |->
        [z |-> R(0), m |-> R(0), c |-> R(0), s |-> R(0), x |-> R(0),
         t |-> Null, a |-> v, A |-> Null, i |-> SibIndex(h, v)]]

nextLeft(h, T, v) ==
    IF HasChildren(h, v) THEN HChildren(h, v)[1] ELSE T[v].t

nextRight(h, T, v) ==
    IF HasChildren(h, v) THEN HChildren(h, v)[Len(HChildren(h, v))] ELSE T[v].t

moveSubtree(T, wm, wp, shift) ==
    LET change == RDiv(shift, R(T[wp].i - T[wm].i))
        T1 == [T EXCEPT ![wp].c = RSub(@, change), ![wp].s = RAdd(@, shift)]
        T2 == [T1 EXCEPT ![wm].c = RAdd(@, change)]
    IN  [T2 EXCEPT ![wp].z = RAdd(@, shift), ![wp].m = RAdd(@, shift)]

\* The while (--i >= 0) loop of executeShifts, child k (1-based) downwards.
RECURSIVE ShiftLoop(_, _, _, _, _)
ShiftLoop(T, children, k, shift, change) ==
    IF k = 0 THEN T
    ELSE LET w == children[k]
             T1 == [T EXCEPT ![w].z = RAdd(@, shift), ![w].m = RAdd(@, shift)]
             change1 == RAdd(change, T1[w].c)
         IN  ShiftLoop(T1, children, k - 1, RAdd(shift, RAdd(T1[w].s, change1)), change1)

executeShifts(h, T, v) ==
    ShiftLoop(T, HChildren(h, v), Len(HChildren(h, v)), R(0), R(0))

nextAncestor(h, T, vim, v, ancestor) ==
    IF HParent(h, T[vim].a) = HParent(h, v) THEN T[vim].a ELSE ancestor

(* The while loop of apportion.  L carries T and the loop variables vim,    *)
(* vip, vom, vop, sim, sip, som, sop.  One round is split over three        *)
(* operators so that each computed value is named once.                     *)
RECURSIVE ApportionLoop(_, _, _, _)

\* shift and T after `vop.a = v` are known: move the subtree, add the mods.
ApportionSums(h, v, ancestor, L, n, shift) ==
    LET T1 == [L.T EXCEPT ![n.vop].a = v]
        moved == RLt(R(0), shift)
        T2 == IF moved
              THEN moveSubtree(T1, nextAncestor(h, T1, n.vim, v, ancestor), v, shift)
              ELSE T1
        sip1 == IF moved THEN RAdd(L.sip, shift) ELSE L.sip
        sop1 == IF moved THEN RAdd(L.sop, shift) ELSE L.sop
    IN  ApportionLoop(h, v, ancestor,
            [T |-> T2, vim |-> n.vim, vip |-> n.vip, vom |-> n.vom, vop |-> n.vop,
             sim |-> RAdd(L.sim, T2[n.vim].m), sip |-> RAdd(sip1, T2[n.vip].m),
             som |-> RAdd(L.som, T2[n.vom].m), sop |-> RAdd(sop1, T2[n.vop].m)])

\* n holds this round's vim, vip (both non-null), vom and vop.
ApportionRound(h, v, ancestor, L, n) ==
    ApportionSums(h, v, ancestor, L, n,
        RAdd(RSub(RSub(RAdd(L.T[n.vim].z, L.sim), L.T[n.vip].z), L.sip),
             separation(h, n.vim, n.vip)))

\* The loop test has advanced vim and vip.
ApportionTest(h, v, ancestor, L, vim, vip) ==
    IF vim = Null \/ vip = Null
    THEN [L EXCEPT !.vim = vim, !.vip = vip]
    ELSE ApportionRound(h, v, ancestor, L,
            [vim |-> vim, vip |-> vip,
             vom |-> nextLeft(h, L.T, L.vom), vop |-> nextRight(h, L.T, L.vop)])

ApportionLoop(h, v, ancestor, L) ==
    ApportionTest(h, v, ancestor, L, nextRight(h, L.T, L.vim), nextLeft(h, L.T, L.vip))

\* The two `if`s after the loop: set the threads.
apportionThreads(h, v, ancestor, L) ==
    LET thrR == L.vim # Null /\ nextRight(h, L.T, L.vop) = Null
        T1 == IF thrR
              THEN [L.T EXCEPT ![L.vop].t = L.vim,
                               ![L.vop].m = RAdd(@, RSub(L.sim, L.sop))]
              ELSE L.T
        thrL == L.vip # Null /\ nextLeft(h, T1, L.vom) = Null
    IN  [T |-> IF thrL
               THEN [T1 EXCEPT ![L.vom].t = L.vip,
                               ![L.vom].m = RAdd(@, RSub(L.sip, L.som))]
               ELSE T1,
         ancestor |-> IF thrL THEN v ELSE ancestor]

apportionStart(T, v, w, vom) ==
    [T |-> T, vim |-> w, vip |-> v, vom |-> vom, vop |-> v,
     sim |-> T[w].m, sip |-> T[v].m, som |-> T[vom].m, sop |-> T[v].m]

\* apportion(v, w, ancestor): the new T and the ancestor it returns.
apportion(h, T, v, w, ancestor) ==
    IF w = Null THEN [T |-> T, ancestor |-> ancestor]
    ELSE apportionThreads(h, v, ancestor,
            ApportionLoop(h, v, ancestor,
                apportionStart(T, v, w, HChildren(h, HParent(h, v))[1])))

\* The left sibling w of firstWalk.
leftSibling(h, T, v) ==
    IF T[v].i > 0 THEN HChildren(h, HParent(h, v))[T[v].i] ELSE Null

\* firstWalk's assignment of v.z and v.m; T0 is T after executeShifts.
firstWalkPrelim(h, T0, v, w) ==
    LET children == HChildren(h, v)
        midpoint == RHalf(RAdd(T0[children[1]].z, T0[children[Len(children)]].z))
    IN  IF children # <<>>
        THEN IF w # Null
             THEN [T0 EXCEPT ![v].z = RAdd(T0[w].z, separation(h, v, w)),
                             ![v].m = RSub(RAdd(T0[w].z, separation(h, v, w)), midpoint)]
             ELSE [T0 EXCEPT ![v].z = midpoint]
        ELSE IF w # Null
             THEN [T0 EXCEPT ![v].z = RAdd(T0[w].z, separation(h, v, w))]
             ELSE T0

\* v.parent.A = apportion(v, w, v.parent.A || siblings[0])
setDefaultAncestor(up, ap) == [ap.T EXCEPT ![up].A = ap.ancestor]

firstWalkApportion(h, T1, v, w) ==
    setDefaultAncestor(HParent(h, v),
        apportion(h, T1, v, w,
                  IF T1[HParent(h, v)].A # Null THEN T1[HParent(h, v)].A
                  ELSE HChildren(h, HParent(h, v))[1]))

firstWalk(h, T, v) ==
    firstWalkApportion(h,
        firstWalkPrelim(h, IF HasChildren(h, v) THEN executeShifts(h, T, v) ELSE T,
                        v, leftSibling(h, T, v)),
        v, leftSibling(h, T, v))

\* t.eachAfter(firstWalk)
RECURSIVE firstWalkAll(_, _, _)
firstWalkAll(h, T, order) ==
    IF order = <<>> THEN T
    ELSE firstWalkAll(h, firstWalk(h, T, order[1]), Tail(order))

secondWalk(h, T, v) ==
    [T EXCEPT ![v].x = RAdd(T[v].z, T[HParent(h, v)].m),
              ![v].m = RAdd(@, T[HParent(h, v)].m)]

\* t.eachBefore(secondWalk)
RECURSIVE secondWalkAll(_, _, _)
secondWalkAll(h, T, order) ==
    IF order = <<>> THEN T
    ELSE secondWalkAll(h, secondWalk(h, T, order[1]), Tail(order))

\* One step of the eachBefore scan for the leftmost, rightmost and deepest node.
extreme(h, T, node, e) ==
    [left |-> IF RLt(T[node].x, T[e.left].x) THEN node ELSE e.left,
     right |-> IF RLt(T[e.right].x, T[node].x) THEN node ELSE e.right,
     bottom |-> IF HDepth(h, node) > HDepth(h, e.bottom) THEN node ELSE e.bottom]

RECURSIVE Extremes(_, _, _, _)
Extremes(h, T, order, e) ==
    IF order = <<>> THEN e
    ELSE Extremes(h, T, Tail(order), extreme(h, T, order[1], e))

\* The final eachBefore: node.x = (node.x + tx) * kx, node.y = node.depth * ky.
treePlace(h, T, tx, kx, ky) ==
    [v \in HIds(h) |->
        [x |-> RMul(RAdd(T[v].x, tx), kx),
         y |-> RMul(R(HDepth(h, v)), ky),
         depth |-> HDepth(h, v),
         parent |-> HParent(h, v)]]

\* s, tx, kx, ky of tree() from the extreme nodes e.
treeScale(h, dx, dy, T, e, s) ==
    treePlace(h, T,
        RSub(s, T[e.left].x),
        RDiv(dx, RAdd(RAdd(T[e.right].x, s), RSub(s, T[e.left].x))),
        RDiv(dy, R(IF HDepth(h, e.bottom) = 0 THEN 1 ELSE HDepth(h, e.bottom))))

treeExtent(h, dx, dy, T, e) ==
    treeScale(h, dx, dy, T, e,
        IF e.left = e.right THEN R(1) ELSE RHalf(separation(h, e.left, e.right)))

treeWalked(h, dx, dy, T) ==
    treeExtent(h, dx, dy, T,
        Extremes(h, T, PreOrder(h, 1), [left |-> 1, right |-> 1, bottom |-> 1]))

\* t.parent.m = -t.z
rootShift(T) == [T EXCEPT ![0].m = RNeg(T[1].z)]

\* treeLayout(root) with size [dx, dy] (rationals): every node's x and y,
\* with its depth and parent.
tree(h, dx, dy) ==
    treeWalked(h, dx, dy,
        secondWalkAll(h, rootShift(firstWalkAll(h, treeRoot(h), PostOrder(h, 1))),
                      PreOrder(h, 1)))

(***************************************************************************)
(* A laid-out tree: node.descendants() in breadth-first order, each entry  *)
(* a LayoutNode [id, x, y, depth, parent].                                 *)
(***************************************************************************)
RECURSIVE Bfs(_, _)
Bfs(h, queue) ==
    IF queue = <<>> THEN <<>>
    ELSE <<queue[1]>> \o Bfs(h, Tail(queue) \o HChildren(h, queue[1]))

layoutNodes(order, layout) ==
    [k \in 1..Len(order) |->
        [id |-> order[k], x |-> layout[order[k]].x, y |-> layout[order[k]].y,
         depth |-> layout[order[k]].depth, parent |-> layout[order[k]].parent]]

descendants(h, layout) == layoutNodes(Bfs(h, <<1>>), layout)

\* treeData.links(): one link per node that has a parent.
links(desc) ==
    {<<desc[k].parent, desc[k].id>> : k \in {j \in 1..Len(desc) : desc[j].parent # 0}}

(***************************************************************************)
(* Geometry utilities (d3Utils)                                            *)
(***************************************************************************)
Infinity == <<1, 0>>
NegInfinity == <<-1, 0>>

\* The forEach of calculateBoundingBox, from entry k on.
RECURSIVE BoxLoop(_, _, _)
BoxLoop(desc, k, box) ==
    IF k > Len(desc) THEN box
    ELSE BoxLoop(desc, k + 1,
            [minX |-> RMin(box.minX, desc[k].x), maxX |-> RMax(box.maxX, desc[k].x),
             minY |-> RMin(box.minY, desc[k].y), maxY |-> RMax(box.maxY, desc[k].y)])

\* A faulty calculateBoundingBox: the box starts at the origin instead of
\* at (Infinity, -Infinity).
calculateBoundingBoxFromZero(desc) ==
    BoxLoop(desc, 1, [minX |-> R(0), maxX |-> R(0), minY |-> R(0), maxY |-> R(0)])

calculateBoundingBox(desc) ==
    BoxLoop(desc, 1, [minX |-> Infinity, maxX |-> NegInfinity,
                      minY |-> Infinity, maxY |-> NegInfinity])

FIT_PADDING == 100
FIT_MAX_SCALE == 3

\* A faulty calculateFitTransform: the layout's x (vertical on screen) and
\* y (horizontal on screen) are not exchanged.
calculateFitTransformSwapped(boundingBox, w, h) ==
    LET padding == R(FIT_PADDING)
        boundingWidth == RAdd(RSub(boundingBox.maxX, boundingBox.minX), RMul(padding, R(2)))
        boundingHeight == RAdd(RSub(boundingBox.maxY, boundingBox.minY), RMul(padding, R(2)))
        scale == RMin(RMin(RDiv(R(w), boundingWidth), RDiv(R(h), boundingHeight)),
                      R(FIT_MAX_SCALE))
        centerX == RHalf(RAdd(boundingBox.minX, boundingBox.maxX))
        centerY == RHalf(RAdd(boundingBox.minY, boundingBox.maxY))
    IN  [translateX |-> RSub(RHalf(R(w)), RMul(centerX, scale)),
         translateY |-> RSub(RHalf(R(h)), RMul(centerY, scale)),
         scale |-> scale]

calculateFitTransform(boundingBox, w, h) ==
    LET padding == R(FIT_PADDING)
        boundingWidth == RAdd(RSub(boundingBox.maxY, boundingBox.minY), RMul(padding, R(2)))
        boundingHeight == RAdd(RSub(boundingBox.maxX, boundingBox.minX), RMul(padding, R(2)))
        scale == RMin(RMin(RDiv(R(w), boundingWidth), RDiv(R(h), boundingHeight)),
                      R(FIT_MAX_SCALE))
        centerX == RHalf(RAdd(boundingBox.minX, boundingBox.maxX))
        centerY == RHalf(RAdd(boundingBox.minY, boundingBox.maxY))
    IN  [translateX |-> RSub(RHalf(R(w)), RMul(centerY, scale)),
         translateY |-> RSub(RHalf(R(h)), RMul(centerX, scale)),
         scale |-> scale]

(***************************************************************************)
(* d3 zoom transforms [k, x, y]: a layout point p is shown at p * k + (x,y) *)
(***************************************************************************)
zoomIdentity == [k |-> R(1), x |-> R(0), y |-> R(0)]

\* transform.translate(x, y) and transform.scale(k) of d3-zoom.
TTranslate(t, x, y) ==
    [t EXCEPT !.x = RAdd(t.x, RMul(t.k, x)), !.y = RAdd(t.y, RMul(t.k, y))]

TScale(t, k) == [t EXCEPT !.k = RMul(t.k, k)]

\* transform.invert(p): the layout point shown at screen point p.
TInvert(t, p) == <<RDiv(RSub(p[1], t.x), t.k), RDiv(RSub(p[2], t.y), t.k)>>

\* A handler's result: a transform, or null.
Some(t) == [ok |-> TRUE, t |-> t]
None == [ok |-> FALSE, t |-> zoomIdentity]

(***************************************************************************)
(* Keyboard navigation (useKeyboardNavigation)                             *)
(***************************************************************************)
MOVE_DISTANCE == 50
ZOOM_FACTOR == <<6, 5>>
MIN_SCALE == <<1, 2>>
MAX_SCALE == 3

PanKeys == {"w", "s", "a", "d"}
ZoomKeys == {"j", "k"}

moves(key) ==
    CASE key = "w" -> [dx |-> 0, dy |-> MOVE_DISTANCE]
      [] key = "s" -> [dx |-> 0, dy |-> -MOVE_DISTANCE]
      [] key = "a" -> [dx |-> MOVE_DISTANCE, dy |-> 0]
      [] key = "d" -> [dx |-> -MOVE_DISTANCE, dy |-> 0]

\* A faulty handlePan: the step is taken in layout units (times the scale).
handlePanScaled(key, current) ==
    IF key \notin PanKeys THEN None
    ELSE Some(TScale(TTranslate(zoomIdentity,
                                RAdd(current.x, RMul(R(moves(key).dx), current.k)),
                                RAdd(current.y, RMul(R(moves(key).dy), current.k))),
                     current.k))

handlePan(key, current) ==
    IF key \notin PanKeys THEN None
    ELSE Some(TScale(TTranslate(zoomIdentity,
                                RAdd(current.x, R(moves(key).dx)),
                                RAdd(current.y, R(moves(key).dy))),
                     current.k))

\* A faulty handleZoom: the new scale is not clamped.
handleZoomUnclamped(key, current, w, h) ==
    LET centerX == RHalf(R(w))
        centerY == RHalf(R(h))
        newScale == IF key = "k" THEN RMul(current.k, ZOOM_FACTOR)
                    ELSE RDiv(current.k, ZOOM_FACTOR)
        scaleFactor == RDiv(newScale, current.k)
        newX == RSub(centerX, RMul(RSub(centerX, current.x), scaleFactor))
        newY == RSub(centerY, RMul(RSub(centerY, current.y), scaleFactor))
    IN  IF key \notin ZoomKeys THEN None
        ELSE Some(TScale(TTranslate(zoomIdentity, newX, newY), newScale))

\* A faulty handleZoom: the translation is computed with ZOOM_FACTOR, not
\* with the ratio of the clamped new scale to the old one.
handleZoomFixedFactor(key, current, w, h) ==
    LET centerX == RHalf(R(w))
        centerY == RHalf(R(h))
        newScale == IF key = "k"
                    THEN RMin(RMul(current.k, ZOOM_FACTOR), R(MAX_SCALE))
                    ELSE RMax(RDiv(current.k, ZOOM_FACTOR), MIN_SCALE)
        scaleFactor == IF key = "k" THEN ZOOM_FACTOR ELSE RInv(ZOOM_FACTOR)
        newX == RSub(centerX, RMul(RSub(centerX, current.x), scaleFactor))
        newY == RSub(centerY, RMul(RSub(centerY, current.y), scaleFactor))
    IN  IF key \notin ZoomKeys THEN None
        ELSE Some(TScale(TTranslate(zoomIdentity, newX, newY), newScale))

handleZoom(key, current, w, h) ==
    LET isZoomIn == key = "k"
        isZoomOut == key = "j"
        centerX == RHalf(R(w))
        centerY == RHalf(R(h))
        oldScale == current.k
        newScale == IF isZoomIn
                    THEN RMin(RMul(oldScale, ZOOM_FACTOR), R(MAX_SCALE))
                    ELSE RMax(RDiv(oldScale, ZOOM_FACTOR), MIN_SCALE)
        scaleFactor == RDiv(newScale, oldScale)
        newX == RSub(centerX, RMul(RSub(centerX, current.x), scaleFactor))
        newY == RSub(centerY, RMul(RSub(centerY, current.y), scaleFactor))
    IN  IF ~isZoomIn /\ ~isZoomOut THEN None
        ELSE Some(TScale(TTranslate(zoomIdentity, newX, newY), newScale))

\* treeData is the content of treeDataRef: <<>> while it is null.
handleFitToCanvas(treeData, w, h) ==
    IF treeData = <<>> THEN None
    ELSE LET fit == calculateFitTransform(calculateBoundingBox(treeData), w, h)
         IN  Some(TScale(TTranslate(zoomIdentity, fit.translateX, fit.translateY),
                         fit.scale))

ToLowerCase(key) ==
    CASE key = "W" -> "w" [] key = "K" -> "k" [] key = "F" -> "f" [] OTHER -> key

(***************************************************************************)
(* d3-zoom behaviour installed by setupZoom                                *)
(***************************************************************************)
SCALE_EXTENT_MIN == <<3, 10>>
SCALE_EXTENT_MAX == 3

\* scale(transform, k) of d3-zoom: the scale clamped to scaleExtent.
zoomScale(t, k) ==
    [t EXCEPT !.k = RMax(SCALE_EXTENT_MIN, RMin(R(SCALE_EXTENT_MAX), k))]

\* translate(transform, p0, p1) of d3-zoom: layout point p1 shown at p0.
zoomTranslate(t, p0, p1) ==
    [t EXCEPT !.x = RSub(p0[1], RMul(p1[1], t.k)), !.y = RSub(p0[2], RMul(p1[2], t.k))]

\* The value a running transition shows at time fraction u between its ends.
Lerp(a, b, u) == RAdd(a, RMul(RSub(b, a), u))
interpolate(from, to, u) ==
    [k |-> Lerp(from.k, to.k, u), x |-> Lerp(from.x, to.x, u), y |-> Lerp(from.y, to.y, u)]

(***************************************************************************)
(* Label collisions (d3Utils.resolveTextCollisions)                        *)
(*                                                                         *)
(* The numbers here are halved again and again, so sums and comparisons    *)
(* bring both fractions to their least common denominator instead of      *)
(* multiplying the denominators.                                           *)
(***************************************************************************)
QAdd(a, b) ==
    RNorm(a[1] * (b[2] \div Gcd(a[2], b[2])) + b[1] * (a[2] \div Gcd(a[2], b[2])),
          (a[2] \div Gcd(a[2], b[2])) * b[2])

QSub(a, b) == QAdd(a, RNeg(b))

QLt(a, b) ==
    a[1] * (b[2] \div Gcd(a[2], b[2])) < b[1] * (a[2] \div Gcd(a[2], b[2]))

QHalf(a) == RNorm(a[1], a[2] * 2)

MAX_ITERATIONS == 10
H_MARGIN == 20
V_MARGIN == 10
LABEL_GAP == 15

\* nodes.each(...): one label per node group, in document order.  `el` is
\* the text element the label belongs to.
collectLabels(nodes) ==
    [k \in 1..Len(nodes) |->
        [el |-> k,
         x |-> QAdd(nodes[k].tx, nodes[k].bx),
         y |-> QAdd(nodes[k].ty, nodes[k].by),
         width |-> nodes[k].width,
         height |-> nodes[k].height,
         centerY |-> nodes[k].ty,
         originalDy |-> nodes[k].dy]]

\* labels.sort((a, b) => a.x - b.x): stable, ascending x.
RECURSIVE InsertByX(_, _)
InsertByX(sorted, l) ==
    IF sorted = <<>> THEN <<l>>
    ELSE IF QLt(l.x, sorted[Len(sorted)].x)
         THEN Append(InsertByX(SubSeq(sorted, 1, Len(sorted) - 1), l),
                     sorted[Len(sorted)])
         ELSE Append(sorted, l)

RECURSIVE SortFrom(_, _, _)
SortFrom(labels, k, sorted) ==
    IF k > Len(labels) THEN sorted
    ELSE SortFrom(labels, k + 1, InsertByX(sorted, labels[k]))

sortByX(labels) == SortFrom(labels, 1, <<>>)

labelTop(a) == QSub(QAdd(a.centerY, a.originalDy), QHalf(a.height))
labelBottom(a) == QAdd(QAdd(a.centerY, a.originalDy), QHalf(a.height))

horizontalOverlap(a, b) ==
    ~(\/ QLt(QAdd(QAdd(a.x, a.width), R(H_MARGIN)), b.x)
      \/ QLt(QAdd(QAdd(b.x, b.width), R(H_MARGIN)), a.x))

verticalOverlap(a, b) ==
    ~(\/ QLt(QAdd(labelBottom(a), R(V_MARGIN)), labelTop(b))
      \/ QLt(QAdd(labelBottom(b), R(V_MARGIN)), labelTop(a)))

collides(a, b) == horizontalOverlap(a, b) /\ verticalOverlap(a, b)

\* (aTop + aBottom + bTop + bBottom) / 4
pairMidpoint(a, b) ==
    QHalf(QHalf(QAdd(QAdd(labelTop(a), labelBottom(a)),
                     QAdd(labelTop(b), labelBottom(b)))))

\* (a.height + b.height) / 2 + 15
pairSpacing(a, b) == QAdd(QHalf(QAdd(a.height, b.height)), R(LABEL_GAP))

\* A faulty adjustPair: the lower label is moved only half of the way.
adjustPairLowerHalfway(labels, i, j, midpoint, spacing) ==
    [labels EXCEPT
        ![i].originalDy = QSub(QSub(midpoint, labels[i].centerY), QHalf(spacing)),
        ![j].originalDy = QAdd(QSub(midpoint, labels[j].centerY),
                               QHalf(QHalf(spacing)))]

adjustPair(labels, i, j, midpoint, spacing) ==
    [labels EXCEPT
        ![i].originalDy = QSub(QSub(midpoint, labels[i].centerY), QHalf(spacing)),
        ![j].originalDy = QAdd(QSub(midpoint, labels[j].centerY), QHalf(spacing))]

\* The two inner loops of one iteration, from the pair (i, j) on.
RECURSIVE PairLoop(_, _, _, _)
PairLoop(labels, i, j, hasCollision) ==
    IF i > Len(labels) THEN [labels |-> labels, hasCollision |-> hasCollision]
    ELSE IF j > Len(labels) THEN PairLoop(labels, i + 1, i + 2, hasCollision)
    ELSE IF collides(labels[i], labels[j])
         THEN PairLoop(adjustPair(labels, i, j, pairMidpoint(labels[i], labels[j]),
                                  pairSpacing(labels[i], labels[j])),
                       i, j + 1, TRUE)
         ELSE PairLoop(labels, i, j + 1, hasCollision)

\* A faulty iteration step: no `break` after a pass without collision.
RECURSIVE IterLoopNoBreak(_, _, _)
IterStepNoBreak(pass, iteration, found) ==
    IterLoopNoBreak(pass.labels, iteration + 1, Append(found, pass.hasCollision))

IterLoopNoBreak(labels, iteration, found) ==
    IF iteration >= MAX_ITERATIONS THEN [labels |-> labels, found |-> found]
    ELSE IterStepNoBreak(PairLoop(labels, 1, 2, FALSE), iteration, found)

\* The iteration loop; `found` lists hasCollision of every pass made.
RECURSIVE IterLoop(_, _, _)
IterStep(pass, iteration, found) ==
    IF ~pass.hasCollision
    THEN [labels |-> pass.labels, found |-> Append(found, FALSE)]
    ELSE IterLoop(pass.labels, iteration + 1, Append(found, TRUE))

IterLoop(labels, iteration, found) ==
    IF iteration >= MAX_ITERATIONS THEN [labels |-> labels, found |-> found]
    ELSE IterStep(PairLoop(labels, 1, 2, FALSE), iteration, found)

labelOf(labels, k) == labels[CHOOSE i \in 1..Len(labels) : labels[i].el = k]

\* A faulty write-back: the node list is replaced by the sorted labels.
applyLabelsSorted(nodes, result) ==
    [nodes |-> [k \in 1..Len(nodes) |->
                   [nodes[result.labels[k].el] EXCEPT
                       !.dy = result.labels[k].originalDy]],
     found |-> result.found]

\* labels.forEach(label => label.textElement.setAttribute('dy', ...)); the
\* bounding box of a text element moves with its dy.
applyLabels(nodes, result) ==
    [nodes |-> [k \in 1..Len(nodes) |->
                   [nodes[k] EXCEPT
                       !.dy = labelOf(result.labels, k).originalDy,
                       !.by = QAdd(nodes[k].by,
                                   QSub(labelOf(result.labels, k).originalDy,
                                        nodes[k].dy))]],
     found |-> result.found]

resolveTextCollisions(nodes) ==
    applyLabels(nodes, IterLoop(sortByX(collectLabels(nodes)), 0, <<>>))

(***************************************************************************)
(* State                                                                   *)
(***************************************************************************)
VARIABLES
    concept,        \* App: text of the search input
    knowledgeTree,  \* App: the tree in state, NoTree while null
    loading,        \* App
    error,          \* App: NoError while null
    pending,        \* knowledge-map requests in flight (the concept sent)
    crashed,        \* an exception escaped an effect: React unmounted the App
    svg,            \* what the <svg> element contains
    treeDataRef,    \* useD3Tree: descendants of the last layout, <<>> while null
    transformRef,   \* useD3Tree: last transform reported by a zoom event
    zoomRef,        \* useD3Tree: a zoom behaviour is installed
    anim,           \* the transition running on the svg element
    drag,           \* the mouse gesture of the zoom behaviour
    width, height,  \* clientWidth, clientHeight of the svg element
    last,           \* history: the last user event or data arrival
    inputs,         \* history: keyboard, wheel and mouse events so far
    searches,       \* history: submitted searches so far
    textNodes,      \* the node groups whose labels resolveTextCollisions reads
    prevNodes,      \* history: textNodes before the last resolveTextCollisions
    passes,         \* history: hasCollision of every pass of the last run
    runs,           \* history: resolveTextCollisions calls so far
    initialFit,     \* history: the transform of the initial fit of the tree shown
    explanation,    \* Home: "null" while null
    explanationLoading,
    selectedConcept, \* Home: "null" while null
    chatMessages,   \* Home: sequence of [role, content]
    chatInput,      \* Home: text of the chat input
    chatLoading,
    explainPending, \* explain-concept requests in flight
    chatPending,    \* chat-about-explanation requests in flight
    fetches,        \* history: explain-concept and chat requests issued so far
    renders,        \* history: renders completed by the useD3Tree effect
    timers,         \* label passes scheduled by setTimeout: the render of each
    lastPass,       \* history: the last label pass a timer ran
    treeQuery,      \* history: the concept sent by the search that set knowledgeTree
    messages,       \* message chat: sequence of [text, sender]; id is history,
                    \* the submit a message belongs to
    inputMessage,   \* message chat: text of the input
    messagePending  \* /api/message requests in flight

vars == <<concept, knowledgeTree, loading, error, pending, crashed, svg, treeDataRef,
          transformRef, zoomRef, anim, drag, width, height, last, inputs, searches,
          textNodes, prevNodes, passes, runs, initialFit, explanation,
          explanationLoading, selectedConcept, chatMessages, chatInput, chatLoading,
          explainPending, chatPending, fetches, renders, timers, lastPass,
          treeQuery, messages, inputMessage, messagePending>>

labelVars == <<textNodes, prevNodes, passes, runs>>

homeVars == <<explanation, explanationLoading, selectedConcept, chatMessages,
              chatInput, chatLoading, explainPending, chatPending, fetches>>

timerVars == <<renders, timers, lastPass>>

messageVars == <<messages, inputMessage, messagePending>>

\* What the search form and the viewport handlers leave alone.
sideVars == <<labelVars, homeVars, initialFit, treeQuery, timerVars, messageVars>>

appVars == <<concept, knowledgeTree, loading, error, pending, searches>>
vizVars == <<svg, treeDataRef, zoomRef>>

MaxInputs == 2
MaxSearches == 2

NoTree == [n |-> 0, node |-> <<>>]
NoError == "null"
GENERIC_ERROR == "Error generating knowledge map. Please try again."

NoPass == [ran |-> FALSE, render |-> 0, renders |-> 0, displayed |-> FALSE,
           attached |-> FALSE]

EmptySvg == [g |-> FALSE, links |-> {}, nodes |-> {}, circles |-> {}, texts |-> {},
             labelled |-> {}]

NoAnim == [active |-> FALSE, started |-> FALSE, from |-> zoomIdentity,
           to |-> zoomIdentity, ticked |-> FALSE, duration |-> 0,
           olds |-> <<>>, over |-> <<>>]

NoDrag == [active |-> FALSE, p1 |-> <<R(0), R(0)>>]

Viewports == {<<1000, 600>>, <<400, 300>>, <<200, 100>>}

Concepts == {"", " ", "ml"}

Keys == {"w", "a", "s", "d", "j", "k", "f", "W", "x"}
Tags == {"svg", "INPUT", "TEXTAREA"}

\* 2^wheelDelta for one notch either way.
WheelFactors == {<<1, 2>>, <<2, 1>>}

Pointers == {<<R(0), R(0)>>, <<RHalf(R(width)), RHalf(R(height))>>}

NoEvent ==
    [op |-> "init", raw |-> "", key |-> "", tag |-> "", prevented |-> FALSE, started |-> FALSE,
     wasAnimating |-> FALSE, before |-> zoomIdentity,
     pair |-> FALSE, firstDone |-> FALSE, origin |-> zoomIdentity]

Event(op) == [NoEvent EXCEPT !.op = op, !.before = transformRef]

\* JSON null is falsy; objects and non-empty strings are truthy.
Truthy(data) == data.n > 0 /\ data.node[1].kind # "null"

Trim(c) == IF c = " " THEN "" ELSE c

Init ==
    /\ concept = ""
    /\ knowledgeTree = NoTree
    /\ loading = FALSE
    /\ error = NoError
    /\ pending = <<>>
    /\ crashed = FALSE
    /\ svg = EmptySvg
    /\ treeDataRef = <<>>
    /\ transformRef = zoomIdentity
    /\ zoomRef = FALSE
    /\ anim = NoAnim
    /\ drag = NoDrag
    /\ \E v \in Viewports : width = v[1] /\ height = v[2]
    /\ last = NoEvent
    /\ inputs = 0
    /\ searches = 0
    /\ textNodes = <<>>
    /\ prevNodes = <<>>
    /\ passes = <<>>
    /\ runs = 0
    /\ initialFit = zoomIdentity
    /\ explanation = "null"
    /\ explanationLoading = FALSE
    /\ selectedConcept = "null"
    /\ chatMessages = <<>>
    /\ chatInput = ""
    /\ chatLoading = FALSE
    /\ explainPending = <<>>
    /\ chatPending = <<>>
    /\ fetches = 0
    /\ renders = 0
    /\ timers = <<>>
    /\ lastPass = NoPass
    /\ treeQuery = ""
    /\ messages = <<>>
    /\ inputMessage = ""
    /\ messagePending = <<>>

(***************************************************************************)
(* The useD3Tree effect for a truthy knowledgeTree: clear, lay out,        *)
(* render, install the zoom behaviour, fit.  The result is the state the   *)
(* effect leaves, also when an exception ends it half-way.                 *)
(***************************************************************************)
HasName(data, i) == data.node[i].kind = "object" /\ data.node[i].hasName

EffectThrew(shown, treeData) ==
    [svg |-> shown, treeDataRef |-> treeData, transformRef |-> transformRef,
     zoomRef |-> zoomRef, anim |-> anim, crashed |-> TRUE]

\* A fit composed with the transform on show instead of the identity.
fitGraphToCanvasFromCurrent(fit) ==
    TScale(TTranslate(transformRef, fit.translateX, fit.translateY), fit.scale)

\* setupZoom, then fitGraphToCanvas: zoom.transform on the selection
\* interrupts a running transition and is applied as given (scaleExtent is
\* not consulted).
fitGraphToCanvas(fit) ==
    TScale(TTranslate(zoomIdentity, fit.translateX, fit.translateY), fit.scale)

\* The text elements renderNodes appends: dx 40 and 42px for the root, dx 30
\* and 33px for the others, dy 5.  The model's text metrics: a box as high
\* as the font size standing on the baseline, two thirds of it wide for a
\* name of one letter.
ROOT_FONT == 42
NODE_FONT == 33

fontSize(d) == IF d.depth = 0 THEN ROOT_FONT ELSE NODE_FONT

renderLabels(treeData) ==
    [k \in 1..Len(treeData) |->
        [tx |-> treeData[k].y, ty |-> treeData[k].x,
         bx |-> R(IF treeData[k].depth = 0 THEN 40 ELSE 30),
         by |-> R(5 - fontSize(treeData[k])),
         width |-> R((2 * fontSize(treeData[k])) \div 3),
         height |-> R(fontSize(treeData[k])),
         dy |-> R(5)]]

\* setTimeout(() => resolveTextCollisions(nodes), 50): the callback joins the
\* timers already scheduled; nothing clears a timer.
setTimeout(scheduled, render) == Append(scheduled, render)

\* From `treeDataRef.current = treeData` on.  renderLinks, then renderNodes:
\* every group, circle and text element is appended before
\* .text(d => truncateText(d.data.name)) runs node by node; that throws at
\* the first datum without a name.
RenderTree(data, treeData) ==
    LET ids == {treeData[k].id : k \in 1..Len(treeData)}
        shapes == [g |-> TRUE, links |-> links(treeData), nodes |-> ids,
                   circles |-> ids, texts |-> ids, labelled |-> {}]
        bad == {k \in 1..Len(treeData) : ~HasName(data, treeData[k].id)}
        firstBad == CHOOSE k \in bad : \A j \in bad : k <= j
    IN  IF bad # {}
        THEN EffectThrew([shapes EXCEPT !.labelled =
                            {treeData[k].id : k \in 1..(firstBad - 1)}], treeData)
        ELSE [svg |-> [shapes EXCEPT !.labelled = ids],
              treeDataRef |-> treeData,
              transformRef |-> fitGraphToCanvas(
                  calculateFitTransform(calculateBoundingBox(treeData), width, height)),
              zoomRef |-> TRUE,
              anim |-> NoAnim,
              crashed |-> FALSE]

\* d3.hierarchy(knowledgeTree), then treeLayout(root) and
\* treeData.descendants(), with size [height * 8, width - 300].
LayoutOf(h, w, ht) ==
    IF h.threw THEN [threw |-> TRUE, treeData |-> <<>>]
    ELSE [threw |-> FALSE, treeData |-> descendants(h, tree(h, R(ht * 8), R(w - 300)))]

\* The layout of every tree in every viewport (a pure function of both).
Layouts ==
    [data \in ValidTrees \cup MalformedTrees, v \in Viewports |->
        LayoutOf(hierarchy(data), v[1], v[2])]

\* After the svg is cleared and the <g> appended.
RenderLayout(data, layout) ==
    IF layout.threw THEN EffectThrew([EmptySvg EXCEPT !.g = TRUE], treeDataRef)
    ELSE RenderTree(data, layout.treeData)

RenderEffect(data) == RenderLayout(data, Layouts[data, <<width, height>>])

\* The state an effect run leaves.
ApplyEffect(r) ==
    /\ svg' = r.svg
    /\ treeDataRef' = r.treeDataRef
    /\ transformRef' = r.transformRef
    /\ zoomRef' = r.zoomRef
    /\ anim' = r.anim
    /\ crashed' = r.crashed

(***************************************************************************)
(* App (Header form, handleSubmit)                                         *)
(***************************************************************************)
\* A form that stays usable while a request is in flight.
formAlwaysEnabled == TRUE

\* The search input and the submit button carry disabled={loading}: a
\* disabled control takes no input and submits nothing.
formEnabled == ~loading

\* onChange of the search input.
SetConcept(c) ==
    /\ ~crashed /\ formEnabled
    /\ c # concept
    /\ concept' = c
    /\ last' = Event("type")
    /\ UNCHANGED <<knowledgeTree, loading, error, pending, crashed, svg, treeDataRef,
                   transformRef, zoomRef, anim, drag, width, height, inputs, searches>>
    /\ UNCHANGED sideVars

\* handleSubmit up to its first await.  With knowledgeTree null the
\* useD3Tree effect returns at once and the keydown listener is removed.
Submit ==
    /\ ~crashed /\ formEnabled
    /\ searches < MaxSearches
    /\ last' = Event("submit")
    /\ IF Trim(concept) = ""
       THEN UNCHANGED <<knowledgeTree, loading, error, pending, searches>>
       ELSE /\ loading' = TRUE
            /\ error' = NoError
            /\ knowledgeTree' = NoTree
            /\ pending' = Append(pending, concept)
            /\ searches' = searches + 1
    /\ UNCHANGED <<concept, crashed, svg, treeDataRef, transformRef, zoomRef, anim,
                   drag, width, height, inputs>>
    /\ UNCHANGED sideVars

Remove(seq, i) == SubSeq(seq, 1, i - 1) \o SubSeq(seq, i + 1, Len(seq))

\* The request resolves ok with JSON `data`: setKnowledgeTree(data),
\* setLoading(false), and the effect that the new knowledgeTree triggers.
ResponseOk(i, data) ==
    /\ ~crashed
    /\ i \in 1..Len(pending)
    /\ pending' = Remove(pending, i)
    /\ loading' = FALSE
    /\ last' = Event("load")
    /\ IF Truthy(data)
       THEN /\ knowledgeTree' = data
            /\ treeQuery' = pending[i]
            /\ ApplyEffect(RenderEffect(data))
            /\ initialFit' = IF RenderEffect(data).crashed THEN initialFit
                              ELSE RenderEffect(data).transformRef
            /\ IF RenderEffect(data).crashed
               THEN UNCHANGED <<textNodes, renders, timers>>
               ELSE /\ textNodes' = renderLabels(RenderEffect(data).treeDataRef)
                    /\ renders' = renders + 1
                    /\ timers' = setTimeout(timers, renders + 1)
       ELSE /\ knowledgeTree' = NoTree
            /\ UNCHANGED <<svg, treeDataRef, transformRef, zoomRef, anim, crashed,
                           initialFit, textNodes, renders, timers, treeQuery>>
    /\ UNCHANGED <<concept, error, drag, width, height, inputs, searches>>
    /\ UNCHANGED <<prevNodes, passes, runs, lastPass, homeVars, messageVars>>

\* fetch rejects, the status is not ok, or the body is not JSON.
ResponseFail(i) ==
    /\ ~crashed
    /\ i \in 1..Len(pending)
    /\ pending' = Remove(pending, i)
    /\ error' = GENERIC_ERROR
    /\ loading' = FALSE
    /\ last' = Event("fail")
    /\ UNCHANGED <<concept, knowledgeTree, crashed, svg, treeDataRef, transformRef,
                   zoomRef, anim, drag, width, height, inputs, searches>>
    /\ UNCHANGED sideVars

(***************************************************************************)
(* Keyboard, wheel and mouse                                               *)
(***************************************************************************)
Opposite(key) ==
    CASE key = "w" -> "s" [] key = "s" -> "w" [] key = "a" -> "d" [] key = "d" -> "a"
      [] OTHER -> ""

\* What a transition of the svg element keeps while it is alive.
Live(a) == [started |-> a.started, from |-> a.from, to |-> a.to, ticked |-> a.ticked]

\* d3.select(svg).transition().duration(duration).call(zoom.transform, t):
\* the transition is created and scheduled; it starts, and reads the
\* transform it starts from, in the next animation frame.  A transition that
\* is alive stays alive (and, if running, keeps running) until then.
transition(a, t, duration) ==
    [active |-> TRUE, started |-> FALSE, from |-> zoomIdentity, to |-> t,
     ticked |-> FALSE, duration |-> duration,
     olds |-> IF a.active THEN Append(a.olds, Live(a)) ELSE <<>>,
     over |-> <<>>]

\* The transforms a running transition can report in a later frame: an
\* interpolated one or, if its duration has passed, its target.
tickValues(o) ==
    IF o.ticked THEN {o.to} ELSE {interpolate(o.from, o.to, <<1, 2>>), o.to}

\* Transitions created but not started, oldest first: each starts from the
\* transform shown, ticks once and is interrupted by the start of the next.
RECURSIVE StartLoop(_, _)
StartLoop(shown, created) ==
    IF created = <<>> THEN shown
    ELSE StartLoop(interpolate(shown, Head(created).to, <<1, 2>>), Tail(created))

\* The transforms shown when the newest transition starts: the timers of
\* the older transitions run first in that frame.
frameValues(olds, shown) ==
    IF olds # <<>> /\ Head(olds).started
    THEN {StartLoop(v, Tail(olds)) : v \in tickValues(Head(olds))}
    ELSE {StartLoop(shown, olds)}

\* A transition that starts from the target it is given.
transitionStartAtTarget(a, shown) ==
    [a EXCEPT !.started = TRUE, !.from = a.to, !.olds = <<>>, !.over = a.olds]

\* start of a transition: every older transition of the element is
\* interrupted or cancelled, and the zoom tween reads the element's current
\* transform as its start value.
transitionStart(a, shown) ==
    [a EXCEPT !.started = TRUE, !.from = shown, !.olds = <<>>, !.over = a.olds]

\* A check that lets the keys typed into a TEXTAREA through.
isTypingInputOnly(tag) == tag = "INPUT"

\* event.target.tagName === 'INPUT' || event.target.tagName === 'TEXTAREA'
isTyping(tag) == tag \in {"INPUT", "TEXTAREA"}

\* handleKeyDown; the listener exists while knowledgeTree is truthy.
KeyDown(rawKey, tag) ==
    /\ ~crashed /\ Truthy(knowledgeTree)
    /\ inputs < MaxInputs
    /\ inputs' = inputs + 1
    /\ LET key == ToLowerCase(rawKey)
           handled == zoomRef /\ ~isTyping(tag)
           newTransform ==
               IF ~handled THEN None
               ELSE IF key \in PanKeys THEN handlePan(key, transformRef)
               ELSE IF key \in ZoomKeys THEN handleZoom(key, transformRef, width, height)
               ELSE IF key = "f" THEN handleFitToCanvas(treeDataRef, width, height)
               ELSE None
           isPair == /\ newTransform.ok /\ key \in PanKeys
                     /\ last.op = "key" /\ last.started /\ last.key = Opposite(key)
       IN  /\ anim' = IF newTransform.ok
                      THEN transition(anim, newTransform.t,
                                      IF key = "f" THEN 500 ELSE 200)
                      ELSE anim
           /\ last' = [op |-> "key", raw |-> rawKey, key |-> key, tag |-> tag,
                       prevented |-> handled /\ (key = "f" \/ newTransform.ok),
                       started |-> newTransform.ok,
                       wasAnimating |-> anim.active,
                       before |-> transformRef,
                       pair |-> isPair,
                       firstDone |-> isPair /\ ~anim.active,
                       origin |-> IF isPair THEN last.before ELSE zoomIdentity]
    /\ UNCHANGED <<concept, knowledgeTree, loading, error, pending, crashed, svg,
                   treeDataRef, transformRef, zoomRef, drag, width, height, searches>>
    /\ UNCHANGED sideVars

\* The first animation frame after a key press created a transition: the
\* running transition ticks, the created ones start in the order of their
\* creation, each one interrupted by the next after its first tick, and the
\* newest is left running from the transform shown then.
AnimStart ==
    /\ ~crashed
    /\ anim.active /\ ~anim.started
    /\ \E shown \in frameValues(anim.olds, transformRef) :
          /\ transformRef' = shown
          /\ anim' = transitionStart(anim, shown)
    /\ UNCHANGED <<concept, knowledgeTree, loading, error, pending, crashed, svg,
                   treeDataRef, zoomRef, drag, width, height, last, inputs, searches>>
    /\ UNCHANGED sideVars

\* A later frame of the running transition: the zoom event reports the
\* interpolated transform.
AnimTick ==
    /\ ~crashed
    /\ anim.active /\ anim.started /\ ~anim.ticked
    /\ transformRef' = interpolate(anim.from, anim.to, <<1, 2>>)
    /\ anim' = [anim EXCEPT !.ticked = TRUE]
    /\ UNCHANGED <<concept, knowledgeTree, loading, error, pending, crashed, svg,
                   treeDataRef, zoomRef, drag, width, height, last, inputs, searches>>
    /\ UNCHANGED sideVars

\* The last frame of the transition reports exactly its target.
AnimEnd ==
    /\ ~crashed
    /\ anim.active /\ anim.started
    /\ transformRef' = anim.to
    /\ anim' = NoAnim
    /\ UNCHANGED <<concept, knowledgeTree, loading, error, pending, crashed, svg,
                   treeDataRef, zoomRef, drag, width, height, last, inputs, searches>>
    /\ UNCHANGED sideVars

\* wheeled of d3-zoom: scale by `factor` within scaleExtent about pointer p;
\* a wheel event that cannot change the scale is ignored.
Wheel(factor, p) ==
    /\ ~crashed /\ zoomRef
    /\ inputs < MaxInputs
    /\ inputs' = inputs + 1
    /\ LET t == transformRef
           k == RMax(SCALE_EXTENT_MIN, RMin(R(SCALE_EXTENT_MAX), RMul(t.k, factor)))
       IN  IF k = t.k
           THEN /\ last' = Event("wheel")
                /\ UNCHANGED <<transformRef, anim>>
           ELSE /\ last' = [Event("wheel") EXCEPT !.started = TRUE, !.key =
                              IF RLt(factor, R(1)) THEN "out" ELSE "in"]
                /\ anim' = NoAnim
                /\ transformRef' = zoomTranslate(zoomScale(t, k), p, TInvert(t, p))
    /\ UNCHANGED <<concept, knowledgeTree, loading, error, pending, crashed, svg,
                   treeDataRef, zoomRef, drag, width, height, searches>>
    /\ UNCHANGED sideVars

\* mousedowned of d3-zoom: remember the layout point under the pointer and
\* interrupt a running transition.
MouseDown(p) ==
    /\ ~crashed /\ zoomRef
    /\ ~drag.active
    /\ inputs < MaxInputs
    /\ inputs' = inputs + 1
    /\ drag' = [active |-> TRUE, p1 |-> TInvert(transformRef, p)]
    /\ anim' = NoAnim
    /\ last' = Event("mousedown")
    /\ UNCHANGED <<concept, knowledgeTree, loading, error, pending, crashed, svg,
                   treeDataRef, transformRef, zoomRef, width, height, searches>>
    /\ UNCHANGED sideVars

\* mousemoved: the remembered layout point follows the pointer.
MouseMove(p) ==
    /\ ~crashed
    /\ drag.active
    /\ inputs < MaxInputs
    /\ inputs' = inputs + 1
    /\ transformRef' = zoomTranslate(transformRef, p, drag.p1)
    /\ last' = Event("mousemove")
    /\ UNCHANGED <<concept, knowledgeTree, loading, error, pending, crashed, svg,
                   treeDataRef, zoomRef, anim, drag, width, height, searches>>
    /\ UNCHANGED sideVars

MouseUp ==
    /\ ~crashed
    /\ drag.active
    /\ drag' = NoDrag
    /\ last' = Event("mouseup")
    /\ UNCHANGED <<concept, knowledgeTree, loading, error, pending, crashed, svg,
                   treeDataRef, transformRef, zoomRef, anim, width, height, inputs,
                   searches>>
    /\ UNCHANGED sideVars

(***************************************************************************)
(* Labels: the deferred resolveTextCollisions(nodes) of renderNodes        *)
(***************************************************************************)
MaxLabels == 8
MaxRuns == 2
MaxRerunLabels == 2

\* A node group translated to (tx, ty) whose text element has the bounding
\* box (bx, by, width, height) and the attribute dy.
TextNode(tx, ty, w, h, dy) ==
    [tx |-> R(tx), ty |-> R(ty), bx |-> R(30), by |-> R(dy - h),
     width |-> R(w), height |-> R(h), dy |-> R(dy)]

\* The labels of n siblings: one column, `gap` pixels from node to node.
Column(n, h, gap) ==
    [k \in 1..n |-> TextNode(0, gap * (k - 1), 100, h, 5)]

\* <<label height, node distance>>
ColumnShapes == {<<40, 39>>, <<40, 48>>, <<40, 60>>, <<12, 11>>}

LabelColumns ==
    {Column(n, c[1], c[2]) : n \in 1..MaxLabels, c \in ColumnShapes}

LabelPairs ==
    {<<TextNode(0, 0, 100, ha, 5), TextNode(tx, ty, 100, hb, dy)>> :
        ha \in {12, 40}, hb \in {12, 40}, tx \in {-200, 0, 50, 200},
        ty \in {-60, -20, 0, 20, 60}, dy \in {0, 5}}

LabelTriples ==
    {<<TextNode(xs[1], ys[1], 100, 40, 5), TextNode(xs[2], ys[2], 100, 40, 5),
       TextNode(xs[3], ys[3], 100, 40, 5)>> :
        xs \in [1..3 -> {0, 100}], ys \in [1..3 -> {0, 30}]}

LabelInputs == LabelColumns \cup LabelPairs \cup LabelTriples

\* The state in which the timer of renderNodes fires, over the label sets
\* `labelSets`.
LabelsInit(labelSets) ==
    /\ concept = ""
    /\ knowledgeTree = NoTree
    /\ loading = FALSE
    /\ error = NoError
    /\ pending = <<>>
    /\ crashed = FALSE
    /\ svg = EmptySvg
    /\ treeDataRef = <<>>
    /\ transformRef = zoomIdentity
    /\ zoomRef = FALSE
    /\ anim = NoAnim
    /\ drag = NoDrag
    /\ width = 1000 /\ height = 600
    /\ last = NoEvent
    /\ inputs = 0
    /\ searches = 0
    /\ textNodes \in labelSets
    /\ prevNodes = <<>>
    /\ passes = <<>>
    /\ runs = 0
    /\ initialFit = zoomIdentity
    /\ explanation = "null"
    /\ explanationLoading = FALSE
    /\ selectedConcept = "null"
    /\ chatMessages = <<>>
    /\ chatInput = ""
    /\ chatLoading = FALSE
    /\ explainPending = <<>>
    /\ chatPending = <<>>
    /\ fetches = 0
    /\ renders = 0
    /\ timers = <<>>
    /\ lastPass = NoPass
    /\ treeQuery = ""
    /\ messages = <<>>
    /\ inputMessage = ""
    /\ messagePending = <<>>

ApplyResolve(r) ==
    /\ prevNodes' = textNodes
    /\ textNodes' = r.nodes
    /\ passes' = r.found
    /\ runs' = runs + 1

\* The timer callback of renderNodes: resolveTextCollisions(nodes).
ResolveTextCollisions ==
    /\ runs = 0
    /\ ApplyResolve(resolveTextCollisions(textNodes))
    /\ UNCHANGED <<concept, knowledgeTree, loading, error, pending, crashed, svg,
                   treeDataRef, transformRef, zoomRef, anim, drag, width, height,
                   last, inputs, searches>>
    /\ UNCHANGED <<homeVars, initialFit, treeQuery, timerVars,
                   messageVars>>

\* resolveTextCollisions called again on the labels it has adjusted.
ResolveAgain ==
    /\ runs >= 1 /\ runs < MaxRuns
    /\ Len(textNodes) <= MaxRerunLabels
    /\ ApplyResolve(resolveTextCollisions(textNodes))
    /\ UNCHANGED <<concept, knowledgeTree, loading, error, pending, crashed, svg,
                   treeDataRef, transformRef, zoomRef, anim, drag, width, height,
                   last, inputs, searches>>
    /\ UNCHANGED <<homeVars, initialFit, treeQuery, timerVars,
                   messageVars>>

\* The nodes of render `render` are still in the document: no later effect
\* has cleared the svg and React has not unmounted the App.
attached(render) == render = renders /\ ~crashed

\* A timer of renderNodes fires (timers of equal delay fire in the order in
\* which they were set): resolveTextCollisions on the nodes of its render.
\* Detached nodes are no longer part of what is shown.
LabelTimer ==
    /\ timers # <<>>
    /\ timers' = Tail(timers)
    /\ lastPass' = [ran |-> TRUE, render |-> Head(timers), renders |-> renders,
                    displayed |-> knowledgeTree # NoTree,
                    attached |-> attached(Head(timers))]
    /\ IF attached(Head(timers))
       THEN ApplyResolve(resolveTextCollisions(textNodes))
       ELSE /\ runs' = runs + 1
            /\ UNCHANGED <<textNodes, prevNodes, passes>>
    /\ UNCHANGED <<concept, knowledgeTree, loading, error, pending, crashed, svg,
                   treeDataRef, transformRef, zoomRef, anim, drag, width, height,
                   last, inputs, searches, renders>>
    /\ UNCHANGED <<homeVars, initialFit, treeQuery, messageVars>>

NextLabels == ResolveTextCollisions \/ ResolveAgain

InitLabels == LabelsInit(LabelInputs)

SpecLabels == InitLabels /\ [][NextLabels]_vars

\* Pairs and triples of labels only.
InitPairs == LabelsInit(LabelPairs \cup LabelTriples)

SpecPairs == InitPairs /\ [][NextLabels]_vars

(***************************************************************************)
(* Home: search form, explanation modal and chat                           *)
(***************************************************************************)
MaxFetches == 3

EXPLAIN_ERROR == "Error generating explanation. Please try again."
CHAT_ERROR == "Sorry, I encountered an error. Please try again."

\* data.explanation and data.response of an ok response.
Explanations == {"text"}
Replies == {"reply"}

\* What the user types into the chat input.
ChatTexts == {"", " ", "q"}

\* The trees the backend sends in the Home flows.
HomeTrees == {t \in ValidTrees : t.n = 2}

\* JavaScript truthiness of a string state that is "null" while null.
TruthyText(t) == t \notin {"null", ""}

\* The modal is rendered, fixed over the whole window, while this holds.
modalOpen == TruthyText(explanation) \/ explanationLoading \/ TruthyText(selectedConcept)

\* {!knowledgeTree && !loading && (... <form onSubmit={handleSubmit}> ...)}
homeFormShown == ~Truthy(knowledgeTree) /\ ~loading

\* disabled={!explanation || chatLoading} of the chat input.
chatInputEnabled == TruthyText(explanation) /\ ~chatLoading

\* A handler that calls fetch twice.
fetchTwice(n) == n + 2

\* One call of fetch.
fetchOnce(n) == n + 1

\* A state update that drops the earlier messages.
replaceMessages(prev, message) == <<message>>

\* setChatMessages(prev => [...prev, message])
appendMessage(prev, message) == Append(prev, message)

HomeSetConcept(c) ==
    /\ ~crashed /\ homeFormShown /\ ~modalOpen
    /\ c # concept
    /\ concept' = c
    /\ last' = Event("type")
    /\ UNCHANGED <<knowledgeTree, loading, error, pending, crashed, svg, treeDataRef,
                   transformRef, zoomRef, anim, drag, width, height, inputs, searches>>
    /\ UNCHANGED sideVars

\* handleSubmit up to its first await; the submit button is disabled while
\* the concept is blank.
HomeSubmit ==
    /\ ~crashed /\ homeFormShown /\ ~modalOpen
    /\ Trim(concept) # ""
    /\ searches < MaxSearches
    /\ last' = [Event("submit") EXCEPT !.started = TRUE]
    /\ loading' = TRUE
    /\ error' = NoError
    /\ knowledgeTree' = NoTree
    /\ pending' = Append(pending, concept)
    /\ searches' = searches + 1
    /\ UNCHANGED <<concept, crashed, svg, treeDataRef, transformRef, zoomRef, anim,
                   drag, width, height, inputs>>
    /\ UNCHANGED sideVars

\* The 'New Trail' button of the header; the svg element is rendered only
\* while knowledgeTree is set, the refs keep what they held.
NewTrail ==
    /\ ~crashed /\ Truthy(knowledgeTree) /\ ~modalOpen
    /\ knowledgeTree' = NoTree
    /\ concept' = ""
    /\ error' = NoError
    /\ svg' = EmptySvg
    /\ anim' = NoAnim
    /\ drag' = NoDrag
    /\ last' = Event("reset")
    /\ UNCHANGED <<loading, pending, crashed, treeDataRef, transformRef, zoomRef,
                   width, height, inputs, searches>>
    /\ UNCHANGED sideVars

\* handleNodeClick(d.data) up to its first await, for a click on the
\* rendered node i.
NodeClick(i) ==
    /\ ~crashed /\ Truthy(knowledgeTree) /\ ~modalOpen
    /\ i \in svg.nodes
    /\ fetches < MaxFetches
    /\ IF concept = ""
       THEN /\ last' = Event("click")
            /\ UNCHANGED homeVars
       ELSE /\ last' = [Event("click") EXCEPT !.started = TRUE]
            /\ selectedConcept' = knowledgeTree.node[i].name
            /\ explanationLoading' = TRUE
            /\ explanation' = "null"
            /\ chatMessages' = <<>>
            /\ chatInput' = ""
            /\ explainPending' = Append(explainPending,
                   [concept_name |-> knowledgeTree.node[i].name,
                    original_query |-> concept])
            /\ fetches' = fetchOnce(fetches)
            /\ UNCHANGED <<chatLoading, chatPending>>
    /\ UNCHANGED <<appVars, vizVars, crashed, transformRef, anim, drag, width, height,
                   inputs, labelVars, initialFit, treeQuery, timerVars,
                   messageVars>>

\* The explain-concept request resolves ok.
ExplainOk(i, text) ==
    /\ ~crashed
    /\ i \in 1..Len(explainPending)
    /\ explainPending' = Remove(explainPending, i)
    /\ explanation' = text
    /\ explanationLoading' = FALSE
    /\ last' = [Event("explained") EXCEPT !.key = explainPending[i].concept_name]
    /\ UNCHANGED <<selectedConcept, chatMessages, chatInput, chatLoading, chatPending,
                   fetches>>
    /\ UNCHANGED <<appVars, vizVars, crashed, transformRef, anim, drag, width, height,
                   inputs, labelVars, initialFit, treeQuery, timerVars,
                   messageVars>>

\* fetch rejects, the status is not ok, or the body is not JSON.
ExplainFail(i) ==
    /\ ~crashed
    /\ i \in 1..Len(explainPending)
    /\ explainPending' = Remove(explainPending, i)
    /\ explanation' = EXPLAIN_ERROR
    /\ explanationLoading' = FALSE
    /\ last' = [Event("explainFailed") EXCEPT
                    !.key = explainPending[i].concept_name]
    /\ UNCHANGED <<selectedConcept, chatMessages, chatInput, chatLoading, chatPending,
                   fetches>>
    /\ UNCHANGED <<appVars, vizVars, crashed, transformRef, anim, drag, width, height,
                   inputs, labelVars, initialFit, treeQuery, timerVars,
                   messageVars>>

\* A click on the overlay around the modal.
CloseOverlay ==
    /\ ~crashed /\ modalOpen
    /\ explanation' = "null"
    /\ selectedConcept' = "null"
    /\ last' = Event("dismiss")
    /\ UNCHANGED <<explanationLoading, chatMessages, chatInput, chatLoading,
                   explainPending, chatPending, fetches>>
    /\ UNCHANGED <<appVars, vizVars, crashed, transformRef, anim, drag, width, height,
                   inputs, labelVars, initialFit, treeQuery, timerVars,
                   messageVars>>

\* The close button of the modal header.
CloseButton ==
    /\ ~crashed /\ modalOpen
    /\ explanation' = "null"
    /\ selectedConcept' = "null"
    /\ chatMessages' = <<>>
    /\ chatInput' = ""
    /\ last' = Event("close")
    /\ UNCHANGED <<explanationLoading, chatLoading, explainPending, chatPending,
                   fetches>>
    /\ UNCHANGED <<appVars, vizVars, crashed, transformRef, anim, drag, width, height,
                   inputs, labelVars, initialFit, treeQuery, timerVars,
                   messageVars>>

\* onChange of the chat input.
SetChatInput(t) ==
    /\ ~crashed /\ modalOpen /\ chatInputEnabled
    /\ t # chatInput
    /\ chatInput' = t
    /\ last' = Event("type")
    /\ UNCHANGED <<explanation, explanationLoading, selectedConcept, chatMessages,
                   chatLoading, explainPending, chatPending, fetches>>
    /\ UNCHANGED <<appVars, vizVars, crashed, transformRef, anim, drag, width, height,
                   inputs, labelVars, initialFit, treeQuery, timerVars,
                   messageVars>>

\* handleSendMessage up to its first await, called by Enter in the chat
\* input (or by the Send button, which is disabled unless the guard passes).
SendMessage ==
    /\ ~crashed /\ modalOpen /\ chatInputEnabled
    /\ fetches < MaxFetches
    /\ IF Trim(chatInput) = "" \/ chatLoading \/ ~TruthyText(explanation)
       THEN /\ last' = Event("send")
            /\ UNCHANGED homeVars
       ELSE /\ last' = [Event("send") EXCEPT !.started = TRUE]
            /\ chatInput' = ""
            /\ chatMessages' = appendMessage(chatMessages,
                   [role |-> "user", content |-> Trim(chatInput)])
            /\ chatLoading' = TRUE
            /\ chatPending' = Append(chatPending,
                   [concept_name |-> selectedConcept, original_query |-> concept,
                    explanation |-> explanation, chat_history |-> chatMessages,
                    user_message |-> Trim(chatInput)])
            /\ fetches' = fetchOnce(fetches)
            /\ UNCHANGED <<explanation, explanationLoading, selectedConcept,
                           explainPending>>
    /\ UNCHANGED <<appVars, vizVars, crashed, transformRef, anim, drag, width, height,
                   inputs, labelVars, initialFit, treeQuery, timerVars,
                   messageVars>>

\* The chat request resolves ok.
ChatOk(i, reply) ==
    /\ ~crashed
    /\ i \in 1..Len(chatPending)
    /\ chatPending' = Remove(chatPending, i)
    /\ chatMessages' = appendMessage(chatMessages,
           [role |-> "assistant", content |-> reply])
    /\ chatLoading' = FALSE
    /\ last' = Event("chatted")
    /\ UNCHANGED <<explanation, explanationLoading, selectedConcept, chatInput,
                   explainPending, fetches>>
    /\ UNCHANGED <<appVars, vizVars, crashed, transformRef, anim, drag, width, height,
                   inputs, labelVars, initialFit, treeQuery, timerVars,
                   messageVars>>

\* fetch rejects, the status is not ok, or the body is not JSON.
ChatFail(i) ==
    /\ ~crashed
    /\ i \in 1..Len(chatPending)
    /\ chatPending' = Remove(chatPending, i)
    /\ chatMessages' = appendMessage(chatMessages,
           [role |-> "assistant", content |-> CHAT_ERROR])
    /\ chatLoading' = FALSE
    /\ last' = Event("chatFailed")
    /\ UNCHANGED <<explanation, explanationLoading, selectedConcept, chatInput,
                   explainPending, fetches>>
    /\ UNCHANGED <<appVars, vizVars, crashed, transformRef, anim, drag, width, height,
                   inputs, labelVars, initialFit, treeQuery, timerVars,
                   messageVars>>

\* Home with its modal: searches, node clicks, chat, and the pan keys that
\* move the viewport meanwhile.
NextHome ==
    \/ HomeSetConcept("ml")
    \/ HomeSubmit
    \/ \E data \in HomeTrees : ResponseOk(1, data)
    \/ ResponseFail(1)
    \/ NewTrail
    \/ \E i \in 1..MaxNodes : NodeClick(i)
    \/ \E i \in 1..Len(explainPending), text \in Explanations : ExplainOk(i, text)
    \/ \E i \in 1..Len(explainPending) : ExplainFail(i)
    \/ CloseOverlay
    \/ CloseButton
    \/ \E t \in ChatTexts : SetChatInput(t)
    \/ SendMessage
    \/ \E i \in 1..Len(chatPending), reply \in Replies : ChatOk(i, reply)
    \/ \E i \in 1..Len(chatPending) : ChatFail(i)
    \/ KeyDown("a", "svg")
    \/ modalOpen /\ KeyDown("a", "INPUT")
    \/ AnimStart
    \/ AnimEnd

SpecHome == Init /\ [][NextHome]_vars

(***************************************************************************)
(* App with the explanation modal: the Header form stays in use while a    *)
(* tree is shown (the modal, while open, covers it); handleNodeClick,      *)
(* handleSendMessage and the modal are those of Home.                      *)
(***************************************************************************)
NextExplain ==
    \/ \E c \in Concepts : ~modalOpen /\ SetConcept(c)
    \/ ~modalOpen /\ Submit
    \/ \E data \in HomeTrees : ResponseOk(1, data)
    \/ ResponseFail(1)
    \/ \E i \in 1..MaxNodes : NodeClick(i)
    \/ \E i \in 1..Len(explainPending), text \in Explanations : ExplainOk(i, text)
    \/ \E i \in 1..Len(explainPending) : ExplainFail(i)
    \/ CloseOverlay
    \/ CloseButton
    \/ \E t \in ChatTexts : SetChatInput(t)
    \/ SendMessage
    \/ \E i \in 1..Len(chatPending), reply \in Replies : ChatOk(i, reply)
    \/ \E i \in 1..Len(chatPending) : ChatFail(i)

SpecExplain == Init /\ [][NextExplain]_vars

(***************************************************************************)
(* The message chat (POST /api/message)                                    *)
(***************************************************************************)
MaxMessages == 3

CONNECT_ERROR == "Error connecting to server"

\* What the user types, and data.response of a response with a JSON body
\* (undefined when the body has no `response`).
MessageTexts == {"", " ", "hi"}
MessageReplies == {"reply", "undefined"}

UserMessages == SelectSeq(messages, LAMBDA m : m.sender = "user")

\* onChange of the input.
SetInputMessage(t) ==
    /\ t # inputMessage
    /\ inputMessage' = t
    /\ UNCHANGED <<messages, messagePending>>
    /\ UNCHANGED <<appVars, vizVars, crashed, transformRef, anim, drag, width, height,
                   last, inputs, labelVars, homeVars, initialFit, treeQuery,
                   timerVars>>

\* handleSubmit up to its first await.
MessageSubmit ==
    /\ Len(UserMessages) < MaxMessages
    /\ Trim(inputMessage) # ""
    /\ messages' = Append(messages, [text |-> inputMessage, sender |-> "user",
                                     id |-> Len(UserMessages) + 1])
    /\ inputMessage' = ""
    /\ messagePending' = Append(messagePending,
           [text |-> inputMessage, id |-> Len(UserMessages) + 1])
    /\ UNCHANGED <<appVars, vizVars, crashed, transformRef, anim, drag, width, height,
                   last, inputs, labelVars, homeVars, initialFit, treeQuery,
                   timerVars>>

\* A response with a JSON body arrives (response.ok is not looked at).
MessageOk(i, reply) ==
    /\ i \in 1..Len(messagePending)
    /\ messagePending' = Remove(messagePending, i)
    /\ messages' = Append(messages, [text |-> reply, sender |-> "bot",
                                     id |-> messagePending[i].id])
    /\ UNCHANGED inputMessage
    /\ UNCHANGED <<appVars, vizVars, crashed, transformRef, anim, drag, width, height,
                   last, inputs, labelVars, homeVars, initialFit, treeQuery,
                   timerVars>>

\* fetch rejects or the body is not JSON.
MessageFail(i) ==
    /\ i \in 1..Len(messagePending)
    /\ messagePending' = Remove(messagePending, i)
    /\ messages' = Append(messages, [text |-> CONNECT_ERROR, sender |-> "bot",
                                     id |-> messagePending[i].id])
    /\ UNCHANGED inputMessage
    /\ UNCHANGED <<appVars, vizVars, crashed, transformRef, anim, drag, width, height,
                   last, inputs, labelVars, homeVars, initialFit, treeQuery,
                   timerVars>>

NextMessages ==
    \/ \E t \in MessageTexts : SetInputMessage(t)
    \/ MessageSubmit
    \/ \E i \in 1..Len(messagePending), reply \in MessageReplies : MessageOk(i, reply)
    \/ \E i \in 1..Len(messagePending) : MessageFail(i)

SpecMessages == Init /\ [][NextMessages]_vars

\* Keyboard events of every kind, wheel, mouse and transition frames.
ViewNext ==
    \/ \E key \in Keys, tag \in Tags : KeyDown(key, tag)
    \/ AnimStart
    \/ AnimTick
    \/ AnimEnd
    \/ \E factor \in WheelFactors, p \in Pointers : Wheel(factor, p)
    \/ \E p \in Pointers : MouseDown(p)
    \/ \E p \in Pointers : MouseMove(p)
    \/ MouseUp

AppNext ==
    \/ \E c \in Concepts : SetConcept(c)
    \/ Submit
    \/ \E i \in 1..Len(pending), data \in ValidTrees \cup MalformedTrees :
          ResponseOk(i, data)
    \/ \E i \in 1..Len(pending) : ResponseFail(i)

Next == AppNext \/ ViewNext

Spec == Init /\ [][Next]_vars

(***************************************************************************)
(* The search flow with the fit key: every tree the backend may send, no   *)
(* other viewport input.                                                   *)
(***************************************************************************)
NextApp ==
    \/ \E c \in Concepts : SetConcept(c)
    \/ Submit
    \/ \E i \in 1..Len(pending), data \in ValidTrees \cup MalformedTrees :
          ResponseOk(i, data)
    \/ \E i \in 1..Len(pending) : ResponseFail(i)
    \/ \E key \in {"f", "F"} : KeyDown(key, "svg")
    \/ AnimStart
    \/ AnimTick
    \/ AnimEnd

SpecApp == Init /\ [][NextApp]_vars

(***************************************************************************)
(* The viewport: small well-formed trees, every navigation input.          *)
(***************************************************************************)
MaxViewNodes == 3

ViewTrees == {t \in ValidTrees : t.n <= MaxViewNodes}

NavKeys == PanKeys \cup ZoomKeys \cup {"f"}

NextView ==
    \/ SetConcept("ml")
    \/ Submit
    \/ \E data \in ViewTrees : ResponseOk(1, data)
    \/ \E key \in NavKeys : KeyDown(key, "svg")
    \/ AnimStart
    \/ AnimTick
    \/ AnimEnd
    \/ \E factor \in WheelFactors, p \in Pointers : Wheel(factor, p)
    \/ \E p \in Pointers : MouseDown(p)
    \/ \E p \in Pointers : MouseMove(p)
    \/ MouseUp

SpecView == Init /\ [][NextView]_vars

(***************************************************************************)
(* The keyboard: every key on every kind of target, over small trees.      *)
(***************************************************************************)
NextKeys ==
    \/ SetConcept("ml")
    \/ Submit
    \/ \E data \in ViewTrees : ResponseOk(1, data)
    \/ \E key \in Keys, tag \in Tags : KeyDown(key, tag)
    \/ AnimStart
    \/ AnimTick
    \/ AnimEnd

SpecKeys == Init /\ [][NextKeys]_vars

(***************************************************************************)
(* The deferred label pass: searches, tree arrivals and timer firings in   *)
(* every order.                                                            *)
(***************************************************************************)
NextTimers ==
    \/ SetConcept("ml")
    \/ Submit
    \/ \E data \in ViewTrees : ResponseOk(1, data)
    \/ ResponseFail(1)
    \/ LabelTimer

SpecTimers == Init /\ [][NextTimers]_vars

(***************************************************************************)
(* Properties                                                              *)
(***************************************************************************)
InRange(lo, x, hi) == RLe(lo, x) /\ RLe(x, hi)

\* The last event was a handled key press of one of `keys` that started a
\* transition.
KeyStarted(keys) == last.op = "key" /\ last.started /\ last.key \in keys

\* Where the last key press leads: the target of the running transition,
\* and the transform shown once it has ended.
KeyResult == IF anim.active THEN anim.to ELSE transformRef

ViewCentre == <<RHalf(R(width)), RHalf(R(height))>>

\* The screen point at which transform t shows the layout node d, which is
\* drawn at (d.y, d.x).
ScreenOf(t, d) == <<RAdd(RMul(d.y, t.k), t.x), RAdd(RMul(d.x, t.k), t.y)>>

MinOf(S) == CHOOSE a \in S : \A b \in S : RLe(a, b)
MaxOf(S) == CHOOSE a \in S : \A b \in S : RLe(b, a)

\* C1: after a keyboard zoom-in (k), however many came before it, the scale
\* is never above the maximum 3; after a keyboard zoom-out (j) the scale is
\* never below the keyboard minimum 0.5.
C1_KeyboardZoomClamped ==
    KeyStarted(ZoomKeys) =>
        /\ last.key = "k" => RLe(KeyResult.k, <<3, 1>>)
        /\ last.key = "j" => RLe(<<1, 2>>, KeyResult.k)

\* A zoom-in pressed at scale 3 has ended at scale 3.
C1_Witness ==
    /\ KeyStarted({"k"})
    /\ last.before.k = <<3, 1>>
    /\ ~anim.active
    /\ transformRef.k = <<3, 1>>

\* C2: in every reachable state the scale held in transformRef lies within
\* the zoom range [0.3, 3].
C2_ScaleWithinZoomRange == InRange(<<3, 10>>, transformRef.k, <<3, 1>>)

\* A fit-to-canvas result is on show: the initial fit after a load, or the
\* result of the F key.
FitOnLoad == last.op = "load" /\ knowledgeTree \in ValidTrees /\ ~crashed
FitOnKey == KeyStarted({"f"})
FitDone == FitOnLoad \/ FitOnKey
FitShown == IF FitOnKey THEN KeyResult ELSE transformRef

SingleNode == Len(treeDataRef) = 1

LayoutXs == {treeDataRef[k].x : k \in 1..Len(treeDataRef)}
LayoutYs == {treeDataRef[k].y : k \in 1..Len(treeDataRef)}

FitChecks(t, minX, maxX, minY, maxY) ==
    /\ t.k = RMin(RMin(RDiv(R(width), RAdd(RSub(maxY, minY), R(2 * 100))),
                       RDiv(R(height), RAdd(RSub(maxX, minX), R(2 * 100)))),
                  R(3))
    /\ ScreenOf(t, [x |-> RHalf(RAdd(minX, maxX)), y |-> RHalf(RAdd(minY, maxY))])
          = ViewCentre
    /\ \A k \in 1..Len(treeDataRef) :
          /\ InRange(R(0), ScreenOf(t, treeDataRef[k])[1], R(width))
          /\ InRange(R(0), ScreenOf(t, treeDataRef[k])[2], R(height))

\* C4: the transform of fit-to-canvas has scale
\* min(width / (boxWidth + 200), height / (boxHeight + 200), 3), shows the
\* centre of the node bounding box at the viewport centre, and shows every
\* node inside [0, width] x [0, height].
C4_FitTransform ==
    (FitDone /\ treeDataRef # <<>>) =>
        FitChecks(FitShown, MinOf(LayoutXs), MaxOf(LayoutXs),
                  MinOf(LayoutYs), MaxOf(LayoutYs))

\* A four-node tree has been loaded and fitted at a scale below 3.
C4_Witness ==
    /\ FitOnLoad
    /\ Len(treeDataRef) = 4
    /\ RLt(transformRef.k, <<3, 1>>)

\* C5: a pan key followed by the opposite pan key ends, once the animation
\* has finished, at exactly the transform shown before the first press,
\* whether or not the first animation had finished at the second press.
C5_OppositePansCancel ==
    (last.op = "key" /\ last.pair /\ ~anim.active) => transformRef = last.origin

PanStep(key) ==
    CASE key = "w" -> <<0, 50>>
      [] key = "s" -> <<0, -50>>
      [] key = "a" -> <<50, 0>>
      [] key = "d" -> <<-50, 0>>

\* C6: a pan key pressed while no animation runs moves the translation by
\* exactly 50 pixels on one axis (w: y+50, s: y-50, a: x+50, d: x-50) and
\* leaves the other axis and the scale alone, whatever the scale.
C6_SinglePanStep ==
    (KeyStarted(PanKeys) /\ ~last.wasAnimating) =>
        /\ KeyResult.x = RAdd(last.before.x, R(PanStep(last.key)[1]))
        /\ KeyResult.y = RAdd(last.before.y, R(PanStep(last.key)[2]))
        /\ KeyResult.k = last.before.k

\* An `a` pressed at a scale other than 1 has ended 50 pixels to the right.
C6_Witness ==
    /\ KeyStarted({"a"}) /\ ~last.wasAnimating /\ ~anim.active
    /\ last.before.k # <<1, 1>>
    /\ transformRef.x = RAdd(last.before.x, R(50))

\* C7: the layout point shown at the viewport centre before a keyboard zoom
\* is the one shown there after it, also when the new scale is clamped.
C7_ZoomKeepsCentre ==
    KeyStarted(ZoomKeys) =>
        TInvert(KeyResult, ViewCentre) = TInvert(last.before, ViewCentre)

\* A zoom-out pressed below the keyboard minimum has ended clamped at 0.5.
C7_Witness ==
    /\ KeyStarted({"j"}) /\ ~anim.active
    /\ RLt(last.before.k, <<1, 2>>)
    /\ transformRef.k = <<1, 2>>

LayoutDepth(i) ==
    treeDataRef[CHOOSE k \in 1..Len(treeDataRef) : treeDataRef[k].id = i].depth

\* C8: a valid tree of N nodes is laid out as exactly N nodes, one per input
\* node, the root at depth 0 and every child one deeper than its parent.
C8_LayoutNodes ==
    knowledgeTree \in ValidTrees =>
        /\ Len(treeDataRef) = knowledgeTree.n
        /\ {treeDataRef[k].id : k \in 1..Len(treeDataRef)} = 1..knowledgeTree.n
        /\ LayoutDepth(1) = 0
        /\ \A i \in 1..knowledgeTree.n :
              \A k \in 1..Len(knowledgeTree.node[i].children) :
                 LayoutDepth(knowledgeTree.node[i].children[k]) = LayoutDepth(i) + 1

\* A[B, C[D]] is laid out as four nodes of depths 0, 1, 1, 2.
C8_Witness ==
    /\ knowledgeTree \in ValidTrees
    /\ knowledgeTree.n = 4
    /\ knowledgeTree.node[1].children = <<2, 3>>
    /\ knowledgeTree.node[3].children = <<4>>
    /\ [k \in 1..4 |-> LayoutDepth(k)] = <<0, 1, 1, 2>>

\* C9: when the tree applied is malformed, no link, circle or label of it
\* is rendered, and the application shows the generic error message.
C9_MalformedTreeRejected ==
    knowledgeTree \in MalformedTrees =>
        /\ svg.links = {} /\ svg.circles = {} /\ svg.texts = {}
        /\ error = GENERIC_ERROR
        /\ ~crashed

\* C10: whenever the tree root is null, treeDataRef refers to no nodes and
\* no node or link of an earlier tree is rendered.
C10_NullRootEmptyLayout ==
    knowledgeTree = NoTree =>
        /\ treeDataRef = <<>>
        /\ svg.nodes = {} /\ svg.links = {}

(***************************************************************************)
(* Properties of the labels                                                *)
(***************************************************************************)
LabelLeft(n) == QAdd(n.tx, n.bx)
LabelRight(n) == QAdd(LabelLeft(n), n.width)
LabelUpper(n) == QSub(QAdd(n.ty, n.dy), QHalf(n.height))
LabelLower(n) == QAdd(QAdd(n.ty, n.dy), QHalf(n.height))

\* Horizontal extents within 20 pixels and vertical extents within 10.
TooClose(a, b) ==
    /\ ~QLt(QAdd(LabelRight(a), R(20)), LabelLeft(b))
    /\ ~QLt(QAdd(LabelRight(b), R(20)), LabelLeft(a))
    /\ ~QLt(QAdd(LabelLower(a), R(10)), LabelUpper(b))
    /\ ~QLt(QAdd(LabelLower(b), R(10)), LabelUpper(a))

Colliding(nodes) ==
    \E i \in 1..Len(nodes), j \in 1..Len(nodes) : i < j /\ TooClose(nodes[i], nodes[j])

\* C11: when resolveTextCollisions has returned, no two labels overlap
\* horizontally within the 20-pixel margin and vertically within the
\* 10-pixel margin.
C11_NoCollisionLeft == runs >= 1 => ~Colliding(textNodes)

\* C12: for two labels, a second run of resolveTextCollisions on the output
\* of the first changes no dy.
C12_PairIdempotent ==
    (runs >= 2 /\ Len(textNodes) = 2) =>
        \A k \in 1..2 : textNodes[k].dy = prevNodes[k].dy

\* Two labels that the first run moved apart have been run again.
C12_Witness ==
    /\ runs = 2 /\ Len(textNodes) = 2
    /\ textNodes[1].dy # <<5, 1>>
    /\ passes = <<FALSE>>

\* C13: resolveTextCollisions leaves every node group's translate, every
\* label's horizontal position and width, and the left-to-right order of the
\* labels as they were.
C13_OnlyDyChanges ==
    runs >= 1 =>
        /\ Len(textNodes) = Len(prevNodes)
        /\ \A k \in 1..Len(textNodes) :
              /\ textNodes[k].tx = prevNodes[k].tx
              /\ textNodes[k].ty = prevNodes[k].ty
              /\ textNodes[k].bx = prevNodes[k].bx
              /\ textNodes[k].width = prevNodes[k].width
              /\ textNodes[k].height = prevNodes[k].height
        /\ \A i, j \in 1..Len(textNodes) :
              QLt(LabelLeft(textNodes[i]), LabelLeft(textNodes[j]))
                 <=> QLt(LabelLeft(prevNodes[i]), LabelLeft(prevNodes[j]))

\* Labels that are not in left-to-right order in the document have been
\* moved vertically.
C13_Witness ==
    /\ runs = 1 /\ Len(textNodes) >= 2
    /\ QLt(LabelLeft(textNodes[2]), LabelLeft(textNodes[1]))
    /\ textNodes[1].dy # prevNodes[1].dy

\* C19: resolveTextCollisions makes at most 10 passes and stops after the
\* first pass that finds no colliding pair; with no colliding pair in the
\* input it makes exactly one pass and changes no dy.
C19_BoundedPasses ==
    runs >= 1 =>
        /\ Len(passes) >= 1 /\ Len(passes) <= 10
        /\ \A k \in 1..(Len(passes) - 1) : passes[k]
        /\ Len(passes) < 10 => ~passes[Len(passes)]
        /\ ~Colliding(prevNodes) =>
              /\ Len(passes) = 1
              /\ \A k \in 1..Len(textNodes) : textNodes[k].dy = prevNodes[k].dy

\* Three labels with no colliding pair have gone through one pass.
C19_Witness ==
    /\ runs = 1 /\ Len(textNodes) = 3
    /\ ~Colliding(prevNodes)
    /\ passes = <<FALSE>>

(***************************************************************************)
(* Properties of the requests                                              *)
(***************************************************************************)
\* C14 as stated needs a search submitted while an earlier knowledge-map
\* request is in flight: the search form accepts a submission whenever a
\* request is in flight.
C14_SubmitWhileInFlight == pending # <<>> => formEnabled

\* C14, amended: at most one knowledge-map request is in flight at any time,
\* and one is in flight exactly while loading is true, so a response is
\* always the response to the most recently submitted search.
C14_OneRequestInFlight ==
    /\ Len(pending) <= 1
    /\ loading <=> pending # <<>>

\* A second search is in flight after the first one was answered.
C14_Witness == searches = 2 /\ Len(pending) = 1 /\ last.op = "submit"

(***************************************************************************)
(* Properties of the keyboard transitions                                  *)
(***************************************************************************)
\* The last event was a handled navigation key pressed while an earlier
\* transition was alive.
KeyOverlapped == KeyStarted(NavKeys) /\ last.wasAnimating

\* v is a transform that transition o reports in a frame after the key
\* press that found the transform `before`.
LaterFrame(o, before, v) ==
    \/ v = o.to /\ o.started
    \/ /\ ~o.ticked
       /\ v = interpolate(IF o.started THEN o.from ELSE before, o.to, <<1, 2>>)

\* C15 as stated: a transition started by a key pressed during an earlier
\* transition starts from the transform shown at the key press (the earlier
\* transition applies no update after the key press).
C15_RestartsFromKeyPress ==
    (KeyOverlapped /\ anim.started) => anim.from = last.before

\* C15, amended: a key pressed during an earlier transition creates a
\* transition that starts in the next animation frame; until then nothing
\* changes the transform; in that frame the earlier transition reports one
\* more transform and is interrupted, and the new transition starts from
\* that transform; at no time do two transitions run (none is queued behind
\* a running one past that frame).
C15_InterruptedAtStart ==
    /\ \A i \in 2..Len(anim.olds) : ~anim.olds[i].started
    /\ anim.started => anim.olds = <<>>
    /\ (KeyOverlapped /\ anim.active) =>
          /\ ~anim.started => transformRef = last.before /\ anim.olds # <<>>
          /\ (anim.started /\ Len(anim.over) = 1) =>
                LaterFrame(anim.over[1], last.before, anim.from)

\* A transition has started from a transform that the interrupted one
\* reported after the key press.
C15_Witness ==
    /\ KeyOverlapped /\ anim.started
    /\ Len(anim.over) = 1 /\ anim.over[1].started
    /\ anim.from # last.before
    /\ anim.from # anim.over[1].to

\* A keydown event is handled in this step.
KeyStep == last'.op = "key" /\ inputs' = inputs + 1

\* The keys that are, case-insensitively, one of w, a, s, d, j, k, f.
BoundKeys == {"w", "a", "s", "d", "j", "k", "f", "W"}

\* C16: a keydown event creates a transform transition only if its key is,
\* case-insensitively, one of w, a, s, d, j, k, f and its target is neither
\* an INPUT nor a TEXTAREA; any other keydown leaves the transform and the
\* transitions alone and its default action is not prevented.
C16_OnlyBoundKeys ==
    [][(KeyStep /\ ~(last'.raw \in BoundKeys /\ last'.tag \notin {"INPUT", "TEXTAREA"}))
         => /\ transformRef' = transformRef
            /\ anim' = anim
            /\ ~last'.prevented]_vars

\* A bound key typed into a TEXTAREA while a transition runs was ignored.
C16_Witness ==
    /\ last.op = "key" /\ last.raw = "w" /\ last.tag = "TEXTAREA"
    /\ ~last.started /\ ~last.prevented
    /\ anim.active /\ anim.started

\* C20: the transform the F key leads to is the initial fit of the tree on
\* show, whatever transform was shown when the key was pressed (after pans,
\* zooms, drags, or an earlier F).
C20_FitIgnoresTransform == KeyStarted({"f"}) => KeyResult = initialFit

\* An F pressed at a transform other than the initial fit has ended at the
\* initial fit.
C20_Witness ==
    /\ KeyStarted({"f"}) /\ ~anim.active
    /\ last.before # initialFit
    /\ transformRef = initialFit

(***************************************************************************)
(* Properties of the explanation and chat requests                         *)
(***************************************************************************)
\* An explain-concept request, or a chat request, fails in this step.
ExplainFailStep ==
    last'.op = "explainFailed" /\ Len(explainPending') = Len(explainPending) - 1
ChatFailStep ==
    last'.op = "chatFailed" /\ Len(chatPending') = Len(chatPending) - 1

\* C17: a failed explain-concept request leaves the fixed error text as the
\* explanation and explanationLoading false; a failed chat request appends
\* exactly one assistant error message and leaves chatLoading false; both
\* leave the tree, its layout, what is rendered and the transform as they
\* were.
C17_FailuresStayInline ==
    [][/\ ExplainFailStep =>
             /\ explanation' = "Error generating explanation. Please try again."
             /\ ~explanationLoading'
             /\ UNCHANGED <<knowledgeTree, treeDataRef, svg, transformRef, anim,
                            crashed>>
       /\ ChatFailStep =>
             /\ chatMessages' = chatMessages \o
                   <<[role |-> "assistant",
                      content |-> "Sorry, I encountered an error. Please try again."]>>
             /\ ~chatLoading'
             /\ UNCHANGED <<knowledgeTree, treeDataRef, svg, transformRef, anim,
                            crashed>>]_vars

\* A chat about an explanation that failed to load has failed as well, with
\* the tree panned away from its initial fit.
C17_Witness ==
    /\ last.op = "chatFailed"
    /\ explanation = EXPLAIN_ERROR
    /\ Len(chatMessages) = 2 /\ chatMessages[2].content = CHAT_ERROR
    /\ ~chatLoading /\ ~explanationLoading
    /\ Truthy(knowledgeTree) /\ transformRef # initialFit

\* HTTP requests issued so far.
Issued == searches + fetches

\* A user trigger (search submit, node click, chat send) is handled in this
\* step.
Triggers == {"submit", "click", "send"}
TriggerStep == last'.op \in Triggers /\ (last' # last \/ Issued' # Issued)

\* C18 as stated: every user trigger issues exactly one HTTP request, and
\* no request is issued in any other step.
C18_OneRequestPerTrigger ==
    [][/\ TriggerStep => Issued' = Issued + 1
       /\ Issued' # Issued => TriggerStep]_vars

\* The guard of the handler of the trigger handled in this step passes.
Accepted ==
    CASE last'.op = "submit" -> Trim(concept) # ""
      [] last'.op = "click" -> Truthy(knowledgeTree) /\ concept # ""
      [] last'.op = "send" ->
            Trim(chatInput) # "" /\ ~chatLoading /\ TruthyText(explanation)
      [] OTHER -> FALSE

\* C18, amended: a user trigger whose handler's guard passes issues exactly
\* one HTTP request and one whose guard fails issues none; no request is
\* issued in any other step, so none follows a failure until another
\* trigger.
C18_OneRequestPerAcceptedTrigger ==
    [][/\ TriggerStep => Issued' = Issued + (IF Accepted THEN 1 ELSE 0)
       /\ Issued' # Issued => TriggerStep]_vars

\* After a failed search, a failed explanation and a failed chat request
\* exactly three requests have been issued.
C18_Witness ==
    /\ last.op = "chatFailed"
    /\ explanation = EXPLAIN_ERROR
    /\ searches = 2 /\ fetches = 2
    /\ pending = <<>> /\ explainPending = <<>> /\ chatPending = <<>>

(***************************************************************************)
(* Properties of the layout axis                                           *)
(***************************************************************************)
LayoutOfId(i) ==
    treeDataRef[CHOOSE k \in 1..Len(treeDataRef) : treeDataRef[k].id = i]

\* C21: for every tree and every canvas size, every child of the layout is
\* placed strictly further right than its parent (the horizontal coordinate
\* is the layout's y, as the nodes are drawn at translate(d.y, d.x)).
C21_ChildRightOfParent ==
    (knowledgeTree \in ValidTrees /\ ~crashed) =>
        \A k \in 1..Len(treeDataRef) :
           treeDataRef[k].parent # 0 =>
              RLt(LayoutOfId(treeDataRef[k].parent).y, treeDataRef[k].y)

(***************************************************************************)
(* Properties of the deferred label pass                                   *)
(***************************************************************************)
PassPending(render) == \E k \in 1..Len(timers) : timers[k] = render

\* C22: when a new tree has arrived, the label pass of that tree has
\* completed before its initial fit is applied: in no state is the initial
\* fit of the latest render applied while its label pass is still to run.
C22_LabelsResolvedBeforeFit ==
    (renders >= 1 /\ ~crashed /\ zoomRef) => ~PassPending(renders)

\* C29: every deferred label pass that runs works on the labels of the tree
\* displayed at that moment: the pass of a tree that has been replaced or
\* removed before its timer fired does not run.
C29_PassOnDisplayedTreeOnly ==
    lastPass.ran => (lastPass.displayed /\ lastPass.render = lastPass.renders)

(***************************************************************************)
(* Properties of the zoom direction                                        *)
(***************************************************************************)
WheelZoomed(dir) == last.op = "wheel" /\ last.started /\ last.key = dir

\* C23: a zoom-out (key j, wheel out) never results in a scale larger than
\* the scale before it, and a zoom-in (key k, wheel in) never in a smaller
\* one, from every reachable transform, the initial fit included.
C23_ZoomDirection ==
    /\ KeyStarted({"j"}) => RLe(KeyResult.k, last.before.k)
    /\ KeyStarted({"k"}) => RLe(last.before.k, KeyResult.k)
    /\ WheelZoomed("out") => RLe(transformRef.k, last.before.k)
    /\ WheelZoomed("in") => RLe(last.before.k, transformRef.k)

(***************************************************************************)
(* Properties of the explanation chat                                      *)
(***************************************************************************)
RoleAt(k) == IF k % 2 = 1 THEN "user" ELSE "assistant"

\* C24: in every reachable state chatMessages alternates user, assistant,
\* user, ... starting with a user message (so at most one user message at
\* the end is unanswered), also when the modal is closed and another node is
\* opened while a chat request is in flight.  (That every assistant message
\* answers the user message before it presupposes this order.)
C24_ChatAlternates ==
    \A k \in 1..Len(chatMessages) : chatMessages[k].role = RoleAt(k)

\* An explain-concept response has just been handled; last.key is the
\* concept_name its request was sent for.
Explained == last.op \in {"explained", "explainFailed"}

\* C25: whenever explanation is non-null, selectedConcept is non-null, and
\* it names the concept for which the explanation was requested, for every
\* interleaving of node clicks, dismissals and explain-concept responses,
\* a dismissal while the explanation is loading included.
C25_ExplanationHasConcept ==
    /\ explanation # "null" => selectedConcept # "null"
    /\ Explained => selectedConcept = last.key

(***************************************************************************)
(* Properties of the requests about a node                                 *)
(***************************************************************************)
LastOf(seq) == seq[Len(seq)]

\* C26: every explain-concept and chat request sends as original_query the
\* concept whose search produced the tree displayed, and a click on a node of
\* a displayed tree always issues an explain-concept request, whatever edits
\* the search input has seen since the tree was generated.
C26_QueryOfDisplayedTree ==
    /\ last.op = "click" =>
          /\ last.started
          /\ LastOf(explainPending).original_query = treeQuery
    /\ (last.op = "send" /\ last.started) =>
          LastOf(chatPending).original_query = treeQuery

(***************************************************************************)
(* Properties of the search                                                *)
(***************************************************************************)
\* A submit of a blank concept; a knowledge-map response being handled.
BlankSubmitStep == last'.op = "submit" /\ Trim(concept) = ""
ResponseStep == last' # last /\ last'.op \in {"load", "fail"}

\* C27: a submit of an empty or whitespace-only concept issues no request
\* and changes no state; loading is true exactly while one knowledge-map
\* request is in flight; a request ends with loading false and exactly one
\* of knowledgeTree (success) and error (failure) set; and whenever error is
\* non-null, knowledgeTree is null.
C27_SearchLifecycle ==
    [][/\ BlankSubmitStep => UNCHANGED appVars
       /\ loading' <=> Len(pending') = 1
       /\ ResponseStep =>
             /\ ~loading'
             /\ (knowledgeTree' # NoTree) # (error' # NoError)
             /\ last'.op = "load" <=> knowledgeTree' # NoTree
       /\ error' # NoError => knowledgeTree' = NoTree]_vars

(***************************************************************************)
(* Properties of the label order                                           *)
(***************************************************************************)
\* The text centre of a node group: centerY + dy.
TextCentre(n) == QAdd(n.ty, n.dy)

\* C28: resolveTextCollisions preserves the vertical order of the labels:
\* a label whose text centre is above another's before the call is not below
\* it after the call.
C28_VerticalOrderKept ==
    runs >= 1 =>
        \A a, b \in 1..Len(textNodes) :
           QLt(TextCentre(prevNodes[a]), TextCentre(prevNodes[b])) =>
              ~QLt(TextCentre(textNodes[b]), TextCentre(textNodes[a]))

(***************************************************************************)
(* Properties of the message chat                                          *)
(***************************************************************************)
BotMessages == {k \in 1..Len(messages) : messages[k].sender = "bot"}

\* C30: every submit of a non-blank text has appended exactly one user
\* message and gets exactly one bot message (the reply or the error text),
\* and every bot message stands immediately after the user message it
\* answers, in whatever order the responses of outstanding requests arrive.
C30_ReplyFollowsItsMessage ==
    /\ Cardinality(BotMessages) + Len(messagePending) = Len(UserMessages)
    /\ \A k, j \in BotMessages : messages[k].id = messages[j].id => k = j
    /\ \A k \in BotMessages :
          /\ k > 1
          /\ messages[k - 1].sender = "user"
          /\ messages[k - 1].id = messages[k].id
====
